---------------------------- MODULE Spec2Model ----------------------------
(***************************************************************************)
(* Model of celestia-node-ui: the WebSocket RPC transport                  *)
(* (services/websocket.js, src/unnamed/part_000 lines 1-181, identical to  *)
(* src/unnamed/part_002 lines 1-169) and the encrypted record store built  *)
(* on it, in its two versions: the database section of app.js              *)
(* (src/unnamed/part_002 lines 1968-2316) and                              *)
(* components/database/database.js (src/unnamed/part_000 lines 183-1083),  *)
(* and the namespace functions of app.js (src/unnamed/part_002 lines       *)
(* 447-578) and utils/common.js (src/unnamed/part_001).                    *)
(*                                                                         *)
(* Spec and FairSpec run the transport, StoreSpec the record store with    *)
(* one initialization, ReinitSpec the record store with two, CodecSpec     *)
(* applies the namespace functions to byte strings.                        *)
(*                                                                         *)
(* The browser runs every handler to completion on one thread, so each     *)
(* action below is one event-loop task: a socket event, a timer callback,  *)
(* or the synchronous part of an async function up to its next await.      *)
(***************************************************************************)
EXTENDS Integers, Sequences, FiniteSets, TLC

(***************************************************************************)
(* Bounds of the model.                                                    *)
(***************************************************************************)
MaxSockets == 4
MaxCalls == 2
MaxInits == 2          \* submissions of the initialization form
MaxAppends == 2        \* submissions of the add-record form
MaxLists == 1          \* record listings
MaxClears == 1         \* clicks on "clear cache"
MaxSchemaReads == 1    \* displays of the schema
MaxLoops == 3          \* calls of startStreaming
StoreInits == 1        \* initializations in StoreSpec (all inputs)
ReinitAppends == 1     \* add-record submissions in ReinitSpec (two inits)

(***************************************************************************)
(* Program constants.                                                      *)
(***************************************************************************)
maxReconnectAttempts == 5
BaseDelay == 1000
DelayCeiling == 5000

Sockets == 1..MaxSockets
Calls == 1..MaxCalls
\* Request ids a message can carry: 0 stands for a missing or falsy id,
\* MaxCalls + 1 is an id no call of the model is ever assigned.
MsgIds == 0..(MaxCalls + 1)

VARIABLES
  started,            \* DOMContentLoaded has run connectWebSocket()
  ws,                 \* the global ws: 0 is null, else the socket it refers to
  socks,              \* readyState of the WebSocket objects
  isConnected,
  reconnectAttempts,
  requestId,
  pendingRequests,    \* id -> the call whose {resolve, reject} is stored
  reconnectTimers,    \* number of pending setTimeout(connectWebSocket, delay)
  lastDelay,          \* delay argument of the most recent reconnect timer
  connectionStatus,   \* text shown in the #connectionStatus element
  wire,               \* requests the node holds unanswered: [id, sock]
  calls,              \* the invocations of sendRpcRequest
  lateMsg             \* ghost: a frame carried the id of a settled call

transportVars == <<started, ws, socks, isConnected, reconnectAttempts, requestId,
                   pendingRequests, reconnectTimers, lastDelay, connectionStatus,
                   wire, calls, lateMsg>>

(***************************************************************************)
(* The record store keeps its state in localStorage; the substrate is the  *)
(* sequence of blobs the node has accepted.                                *)
(***************************************************************************)
VARIABLES
  build,              \* which of the repository's two programs is loaded
  dbNamespace,        \* localStorage celestia_db_namespace (0: absent)
  dbSchemaHeight,     \* localStorage celestia_db_schema_height (0: absent)
  dbRecords,          \* localStorage celestia_db_records
  dbAuthToken,        \* localStorage auth token (0: absent)
  dbSchema,           \* localStorage celestia_db_schema (database.js only)
  chain,              \* blobs accepted by the node, in order of acceptance
  clock,              \* successive readings of new Date()
  tokenCount,         \* tokens generateAuthToken() has produced
  ops                 \* the invocations of the store's handlers, in order

storeVars == <<build, dbNamespace, dbSchemaHeight, dbRecords, dbAuthToken,
               dbSchema, chain, clock, tokenCount, ops>>

(***************************************************************************)
(* The namespace functions are pure; codec holds the argument one of them  *)
(* is applied to and what it returned.                                     *)
(***************************************************************************)
VARIABLES
  codec

codecVars == <<codec>>

(***************************************************************************)
(* The live sampling statistics: the closure of                            *)
(* setupRealtimeSamplingStats.                                             *)
(***************************************************************************)
VARIABLES
  isStreaming,            \* the flag the live button toggles
  signal,                 \* the AbortSignal the variable `signal` refers to
  abortedSignals,         \* the signals whose controller was aborted
  streamLoops,            \* per startStreaming call, where its streamStats is
  streamReconnectAttempts,\* the closure's reconnectAttempts
  reconnectTimeout        \* the loop whose retry timer was set last (0: null)

streamVars == <<isStreaming, signal, abortedSignals, streamLoops,
                streamReconnectAttempts, reconnectTimeout>>

vars == <<transportVars, storeVars, codecVars, streamVars>>

Min(a, b) == IF a <= b THEN a ELSE b

(***************************************************************************)
(* JSON values of the record store.  A property an object does not have    *)
(* reads as undefined, so an object is a function on all field names.      *)
(***************************************************************************)
Builds == {"app", "database"}

FieldNames == {"name", "age"}
FieldOrder == <<"name", "age">>

Undefined == [type |-> "undefined", val |-> "undefined"]
JsNull == [type |-> "null", val |-> "null"]
JsString(s) == [type |-> "string", val |-> s]
JsNumber(n) == [type |-> "number", val |-> n]

\* typeof v
TypeOf(v) == IF v.type \in {"null", "array"} THEN "object" ELSE v.type

\* Array.isArray(v)
IsArray(v) == v.type = "array"

NoData == [f \in FieldNames |-> Undefined]

\* The texts typed into the add-record form, parsed.
RecordInputs ==
  { [name |-> JsString("a"), age |-> Undefined],
    [name |-> Undefined, age |-> Undefined],
    [name |-> JsNull, age |-> Undefined],
    [name |-> JsString("a"), age |-> JsNumber("1")] }

Undeclared == [declared |-> FALSE, type |-> "none", required |-> FALSE]
NameDecl == [declared |-> TRUE, type |-> "string", required |-> TRUE]
AgeDecl == [declared |-> TRUE, type |-> "number", required |-> FALSE]

\* {"type": "date"}: a type validateDataAgainstSchema has no branch for
DateDecl == [declared |-> TRUE, type |-> "date", required |-> FALSE]

\* A schema text, parsed: shape "flat" is {"name": {...}}, the field
\* declarations at the top level; shape "fields" is {"fields": {"name":
\* {...}, ...}}, the declarations under the key database.js reads; shape
\* "array" is the text [], which JSON.parse accepts.
NoSchema == [shape |-> "flat", decl |-> [f \in FieldNames |-> Undeclared]]

SchemaInputs ==
  { [shape |-> "flat", decl |-> [name |-> NameDecl, age |-> Undeclared]],
    [shape |-> "fields", decl |-> [name |-> NameDecl, age |-> AgeDecl]],
    [shape |-> "fields", decl |-> [name |-> NameDecl, age |-> Undeclared]],
    [shape |-> "fields", decl |-> [name |-> NameDecl, age |-> DateDecl]],
    [shape |-> "array", decl |-> [f \in FieldNames |-> Undeclared]] }

\* A valid user namespace (version 0, eighteen zero bytes, ten id bytes).
StoreNamespaces == {1}

AbsentList == [present |-> FALSE, list |-> <<>>]
AbsentSchema == [present |-> FALSE, schema |-> NoSchema]

(***************************************************************************)
(* Inbound messages.  parse = FALSE is a frame JSON.parse rejects.         *)
(***************************************************************************)
Messages == [parse : {TRUE}, id : MsgIds, error : BOOLEAN]
              \cup {[parse |-> FALSE, id |-> 0, error |-> FALSE]}

\* id: the request id taken (0: none); sent: ws.send was called for it;
\* sock: the socket it was written to, kept while the promise is unsettled;
\* settles: how often resolve/reject was invoked; by, byError: the frame
\* whose arrival settled it.  opened is a ghost: an open event occurred
\* while the call was waiting for a connection.
IdleCall == [pc |-> "idle", id |-> 0, outcome |-> "none", sent |-> FALSE,
             sock |-> 0,
             opened |-> FALSE, settles |-> 0, by |-> 0, byError |-> FALSE]

\* No namespace function has been applied.
CodecIdle ==
  [kind |-> "none", wire |-> <<>>, text |-> <<>>, fn |-> "none",
   valid |-> FALSE, error |-> "", hex |-> <<>>, base64 |-> <<>>]

ProgramInit ==
  /\ started = FALSE
  /\ ws = 0
  /\ socks = [s \in Sockets |-> "none"]
  /\ isConnected = FALSE
  /\ reconnectAttempts = 0
  /\ requestId = 1
  /\ pendingRequests = <<>>
  /\ reconnectTimers = 0
  /\ lastDelay = 0
  /\ connectionStatus = "initial"
  /\ wire = {}
  /\ calls = [c \in Calls |-> IdleCall]
  /\ lateMsg = FALSE
  /\ build \in Builds
  /\ dbNamespace = 0
  /\ dbSchemaHeight = 0
  /\ dbRecords = AbsentList
  /\ dbAuthToken = 0
  /\ dbSchema = AbsentSchema
  /\ chain = <<>>
  /\ clock = 1
  /\ tokenCount = 0
  /\ ops = <<>>
  /\ isStreaming = TRUE
  /\ signal = 1
  /\ abortedSignals = {}
  /\ streamLoops = <<"fetching">>
  /\ streamReconnectAttempts = 0
  /\ reconnectTimeout = 0

Init ==
  /\ ProgramInit
  /\ codec = CodecIdle

(***************************************************************************)
(* connectWebSocket(): a no-op while ws is not null, else a new socket.    *)
(* new WebSocket(url) with the fixed, well-formed URL does not throw, so   *)
(* the catch block is not modelled.                                        *)
(***************************************************************************)
\* A WebSocket object whose close handler has run is garbage unless an
\* unsettled call was written to it; its slot can hold the next object.
FreshSockets ==
  {s \in Sockets : /\ socks[s] \in {"none", "closed"}
                   /\ \A c \in Calls : calls[c].sock # s}

NewSocket ==
  /\ FreshSockets # {}
  /\ LET s == CHOOSE x \in FreshSockets : \A y \in FreshSockets : x <= y
     IN /\ ws' = s
        /\ socks' = [socks EXCEPT ![s] = "connecting"]

ConnectWebSocketUnguarded ==
  IF FreshSockets # {} THEN NewSocket ELSE UNCHANGED <<ws, socks>>

ConnectWebSocket ==
  IF ws # 0 THEN UNCHANGED <<ws, socks>> ELSE NewSocket

\* main.js: the DOMContentLoaded handler connects before any tab is set up.
Startup ==
  /\ ~started
  /\ started' = TRUE
  /\ ConnectWebSocket
  /\ UNCHANGED <<isConnected, reconnectAttempts, requestId, pendingRequests,
                 reconnectTimers, lastDelay, connectionStatus, wire, calls,
                 lateMsg>>
  /\ UNCHANGED <<storeVars, codecVars, streamVars>>

(***************************************************************************)
(* ws.onopen                                                               *)
(***************************************************************************)
NoteOpened(r) ==
  IF r.pc \in {"poll", "wait"} THEN [r EXCEPT !.opened = TRUE] ELSE r

\* The open handler without line 30.
OnOpenKeepingAttempts(s) ==
  /\ socks[s] = "connecting"
  /\ socks' = [socks EXCEPT ![s] = "open"]
  /\ isConnected' = TRUE
  /\ connectionStatus' = "connected"
  /\ calls' = [c \in Calls |-> NoteOpened(calls[c])]
  /\ UNCHANGED <<started, ws, reconnectAttempts, requestId, pendingRequests,
                 reconnectTimers, lastDelay, wire, lateMsg>>
  /\ UNCHANGED <<storeVars, codecVars, streamVars>>

OnOpen(s) ==
  /\ socks[s] = "connecting"
  /\ socks' = [socks EXCEPT ![s] = "open"]
  /\ isConnected' = TRUE
  /\ reconnectAttempts' = 0
  /\ connectionStatus' = "connected"
  /\ calls' = [c \in Calls |-> NoteOpened(calls[c])]
  /\ UNCHANGED <<started, ws, requestId, pendingRequests, reconnectTimers,
                 lastDelay, wire, lateMsg>>
  /\ UNCHANGED <<storeVars, codecVars, streamVars>>

(***************************************************************************)
(* ws.onerror: only clears isConnected; the browser always follows an      *)
(* error event with a close event.                                         *)
(***************************************************************************)
OnError(s) ==
  /\ socks[s] \in {"connecting", "open"}
  /\ socks' = [socks EXCEPT ![s] = "errored"]
  /\ isConnected' = FALSE
  /\ UNCHANGED <<started, ws, reconnectAttempts, requestId, pendingRequests,
                 reconnectTimers, lastDelay, connectionStatus, wire, calls,
                 lateMsg>>
  /\ UNCHANGED <<storeVars, codecVars, streamVars>>

(***************************************************************************)
(* ws.onclose: clears the connection, then either schedules a reconnect    *)
(* or shows the terminal disconnected state.  The handler does not touch   *)
(* pendingRequests.                                                        *)
(***************************************************************************)
ReconnectDelayOffByOne(k) == Min(BaseDelay * (k + 1), DelayCeiling)

ReconnectDelay(k) == Min(BaseDelay * k, DelayCeiling)

MayReconnectInclusive == reconnectAttempts <= maxReconnectAttempts

MayReconnect == reconnectAttempts < maxReconnectAttempts

OnClose(s) ==
  /\ socks[s] \in {"connecting", "open", "errored"}
  /\ socks' = [socks EXCEPT ![s] = "closed"]
  /\ isConnected' = FALSE
  /\ ws' = 0
  /\ IF MayReconnect
       THEN /\ reconnectAttempts' = reconnectAttempts + 1
            /\ lastDelay' = ReconnectDelay(reconnectAttempts + 1)
            /\ reconnectTimers' = reconnectTimers + 1
            /\ UNCHANGED connectionStatus
       ELSE /\ connectionStatus' = "disconnected"
            /\ UNCHANGED <<reconnectAttempts, lastDelay, reconnectTimers>>
  /\ wire' = {r \in wire : r.sock # s}   \* what the node held for s is gone
  /\ UNCHANGED <<started, requestId, pendingRequests, calls, lateMsg>>
  /\ UNCHANGED <<storeVars, codecVars, streamVars>>

\* The callback of setTimeout(connectWebSocket, delay).
ReconnectTimer ==
  /\ reconnectTimers > 0
  /\ reconnectTimers' = reconnectTimers - 1
  /\ ConnectWebSocket
  /\ UNCHANGED <<started, isConnected, reconnectAttempts, requestId,
                 pendingRequests, lastDelay, connectionStatus, wire, calls,
                 lateMsg>>
  /\ UNCHANGED <<storeVars, codecVars, streamVars>>

(***************************************************************************)
(* ws.onmessage                                                            *)
(***************************************************************************)
\* resolve(response) or reject(error) of call record r, invoked for message m.
\* A promise keeps its first settlement; settles counts the invocations.
\* The handler rejecting whatever the frame holds.
SettleRejecting(r, m) ==
  [r EXCEPT !.pc = "done",
            !.sock = 0,
            !.outcome = IF r.settles > 0 THEN r.outcome ELSE "rpcError",
            !.by = IF r.settles > 0 THEN r.by ELSE m.id,
            !.byError = IF r.settles > 0 THEN r.byError ELSE m.error,
            !.settles = r.settles + 1]

Settle(r, m) ==
  [r EXCEPT !.pc = "done",
            !.sock = 0,
            !.outcome = IF r.settles > 0 THEN r.outcome
                        ELSE IF m.error THEN "rpcError" ELSE "resolved",
            !.by = IF r.settles > 0 THEN r.by ELSE m.id,
            !.byError = IF r.settles > 0 THEN r.byError ELSE m.error,
            !.settles = r.settles + 1]

IsLate(m) ==
  m.parse /\ m.id # 0 /\ \E c \in Calls : calls[c].id = m.id /\ calls[c].pc = "done"

Matches(m) == m.parse /\ m.id # 0 /\ m.id \in DOMAIN pendingRequests

Oldest == CHOOSE i \in DOMAIN pendingRequests : \A j \in DOMAIN pendingRequests : i <= j

Without(f, i) == [j \in (DOMAIN f) \ {i} |-> f[j]]

\* The handler with the delete of line 62 left out.
OnMessageKeepEntry(m) ==
  IF Matches(m)
    THEN /\ calls' = [calls EXCEPT ![pendingRequests[m.id]] = Settle(@, m)]
         /\ UNCHANGED <<pendingRequests, lateMsg>>
    ELSE /\ lateMsg' = (lateMsg \/ IsLate(m))
         /\ UNCHANGED <<pendingRequests, calls>>

\* The handler settling the oldest pending request instead of the one named.
OnMessageFifo(m) ==
  IF Matches(m)
    THEN /\ calls' = [calls EXCEPT ![pendingRequests[Oldest]] = Settle(@, m)]
         /\ pendingRequests' = Without(pendingRequests, Oldest)
         /\ UNCHANGED lateMsg
    ELSE /\ lateMsg' = (lateMsg \/ IsLate(m))
         /\ UNCHANGED <<pendingRequests, calls>>

\* The handler giving a frame that names no pending request to the oldest.
OnMessageSettlingUnmatched(m) ==
  IF Matches(m)
    THEN /\ calls' = [calls EXCEPT ![pendingRequests[m.id]] = Settle(@, m)]
         /\ pendingRequests' = Without(pendingRequests, m.id)
         /\ UNCHANGED lateMsg
    ELSE IF m.parse /\ DOMAIN pendingRequests # {}
    THEN /\ calls' = [calls EXCEPT ![pendingRequests[Oldest]] = Settle(@, m)]
         /\ pendingRequests' = Without(pendingRequests, Oldest)
         /\ lateMsg' = (lateMsg \/ IsLate(m))
    ELSE /\ lateMsg' = (lateMsg \/ IsLate(m))
         /\ UNCHANGED <<pendingRequests, calls>>

OnMessage(m) ==
  IF Matches(m)
    THEN /\ calls' = [calls EXCEPT ![pendingRequests[m.id]] = Settle(@, m)]
         /\ pendingRequests' = Without(pendingRequests, m.id)
         /\ UNCHANGED lateMsg
    ELSE /\ lateMsg' = (lateMsg \/ IsLate(m))
         /\ UNCHANGED <<pendingRequests, calls>>

\* The node answers a request it received on a socket that is still open.
Respond(r, e) ==
  /\ r \in wire
  /\ socks[r.sock] = "open"
  /\ wire' = wire \ {r}
  /\ OnMessage([parse |-> TRUE, id |-> r.id, error |-> e])
  /\ UNCHANGED <<started, ws, socks, isConnected, reconnectAttempts, requestId,
                 reconnectTimers, lastDelay, connectionStatus>>
  /\ UNCHANGED <<storeVars, codecVars, streamVars>>

\* Any other frame on an open socket: a subscription message, a repeated
\* response, a frame without id, or one that does not parse.
Unsolicited(m) ==
  /\ \E s \in Sockets : socks[s] = "open"
  /\ \A r \in wire : r.id # m.id
  /\ OnMessage(m)
  /\ UNCHANGED <<started, ws, socks, isConnected, reconnectAttempts, requestId,
                 reconnectTimers, lastDelay, connectionStatus, wire>>
  /\ UNCHANGED <<storeVars, codecVars, streamVars>>

(***************************************************************************)
(* sendRpcRequest(method, params)                                          *)
(*                                                                         *)
(* pc of a call: "idle" (not invoked), "poll" (first checkConnection ran,  *)
(* its 500 ms timer is pending), "wait" (second checkConnection ran, the   *)
(* 1000 ms timeout is the next timer of the call to fire: it was set first *)
(* and is due no later than the third checkConnection, which then returns  *)
(* at once because connectionTimeout is set), "pending" (request written,  *)
(* promise unsettled), "done" (promise settled).                           *)
(***************************************************************************)
\* Lines 152-172 with `requestId` read but not incremented.
SendRequestReusingId(c) ==
  LET id == requestId IN
  /\ requestId' = requestId
  /\ IF ~isConnected \/ ws = 0
       THEN /\ calls' = [calls EXCEPT ![c] =
                 [@ EXCEPT !.pc = "done", !.id = id, !.outcome = "notConnected",
                           !.opened = FALSE, !.settles = 1]]
            /\ UNCHANGED <<pendingRequests, wire>>
       ELSE /\ calls' = [calls EXCEPT ![c] =
                 [@ EXCEPT !.pc = "pending", !.id = id, !.sent = TRUE,
                           !.sock = ws, !.opened = FALSE]]
            /\ pendingRequests' = [j \in (DOMAIN pendingRequests) \cup {id} |->
                                     IF j = id THEN c ELSE pendingRequests[j]]
            /\ wire' = wire \cup {[id |-> id, sock |-> ws]}

\* Lines 152-172: take the next id and, inside the promise executor, record
\* the pending entry and write the payload.  The await's continuation runs
\* in the same task as the checkConnection that resolved it.
SendRequest(c) ==
  LET id == requestId IN
  /\ requestId' = requestId + 1
  /\ IF ~isConnected \/ ws = 0
       THEN /\ calls' = [calls EXCEPT ![c] =
                 [@ EXCEPT !.pc = "done", !.id = id, !.outcome = "notConnected",
                           !.opened = FALSE, !.settles = 1]]
            /\ UNCHANGED <<pendingRequests, wire>>
       ELSE /\ calls' = [calls EXCEPT ![c] =
                 [@ EXCEPT !.pc = "pending", !.id = id, !.sent = TRUE,
                           !.sock = ws, !.opened = FALSE]]
            /\ pendingRequests' = [j \in (DOMAIN pendingRequests) \cup {id} |->
                                     IF j = id THEN c ELSE pendingRequests[j]]
            /\ wire' = wire \cup {[id |-> id, sock |-> ws]}

\* The invocation: lines 122-150 up to the await, or straight through when
\* already connected.  Calls are numbered in the order they are issued.
Call(c) ==
  /\ started
  /\ calls[c].pc = "idle"
  /\ \A d \in Calls : d < c => calls[d].pc # "idle"
  /\ IF isConnected
       THEN /\ SendRequest(c)
            /\ UNCHANGED <<ws, socks>>
       ELSE /\ ConnectWebSocket
            /\ calls' = [calls EXCEPT ![c] = [@ EXCEPT !.pc = "poll"]]
            /\ UNCHANGED <<requestId, pendingRequests, wire>>
  /\ UNCHANGED <<started, isConnected, reconnectAttempts, reconnectTimers,
                 lastDelay, connectionStatus, lateMsg>>
  /\ UNCHANGED <<storeVars, codecVars, streamVars>>

\* checkConnection after 500 ms (lines 135-144).
Poll(c) ==
  /\ calls[c].pc = "poll"
  /\ IF isConnected
       THEN /\ SendRequest(c)
            /\ UNCHANGED <<ws, socks>>
       ELSE /\ ConnectWebSocket
            /\ calls' = [calls EXCEPT ![c] = [@ EXCEPT !.pc = "wait"]]
            /\ UNCHANGED <<requestId, pendingRequests, wire>>
  /\ UNCHANGED <<started, isConnected, reconnectAttempts, reconnectTimers,
                 lastDelay, connectionStatus, lateMsg>>
  /\ UNCHANGED <<storeVars, codecVars, streamVars>>

\* The 1000 ms timer (lines 128-131): the race rejects and the function
\* throws before line 152.
TimeoutAfterTakingId(c) ==
  /\ calls[c].pc = "wait"
  /\ requestId' = requestId + 1
  /\ calls' = [calls EXCEPT ![c] =
        [@ EXCEPT !.pc = "done", !.id = requestId, !.outcome = "timeout",
                  !.settles = 1]]
  /\ UNCHANGED <<started, ws, socks, isConnected, reconnectAttempts,
                 pendingRequests, reconnectTimers, lastDelay, connectionStatus,
                 wire, lateMsg>>
  /\ UNCHANGED <<storeVars, codecVars, streamVars>>

Timeout(c) ==
  /\ calls[c].pc = "wait"
  /\ calls' = [calls EXCEPT ![c] =
        [@ EXCEPT !.pc = "done", !.outcome = "timeout", !.settles = 1]]
  /\ UNCHANGED <<started, ws, socks, isConnected, reconnectAttempts, requestId,
                 pendingRequests, reconnectTimers, lastDelay, connectionStatus,
                 wire, lateMsg>>
  /\ UNCHANGED <<storeVars, codecVars, streamVars>>

(***************************************************************************)
(* The transport as a whole.                                               *)
(***************************************************************************)
Next ==
  \/ Startup
  \/ \E s \in Sockets : OnOpen(s)
  \/ \E s \in Sockets : OnError(s)
  \/ \E s \in Sockets : OnClose(s)
  \/ ReconnectTimer
  \/ \E c \in Calls : Call(c)
  \/ \E c \in Calls : Poll(c)
  \/ \E c \in Calls : Timeout(c)
  \/ \E r \in wire, e \in BOOLEAN : Respond(r, e)
  \/ \E m \in Messages : Unsolicited(m)

Spec == Init /\ [][Next]_vars

(***************************************************************************)
(* Fairness the runtime provides: a timer that is set fires, a socket that *)
(* reported an error closes, a connection attempt ends (open or close),    *)
(* and the node answers a request it holds on an open socket.              *)
(***************************************************************************)
Fairness ==
  /\ WF_vars(Startup)
  /\ WF_vars(ReconnectTimer)
  /\ \A c \in Calls : WF_vars(Poll(c)) /\ WF_vars(Timeout(c))
  /\ \A s \in Sockets : WF_vars(socks[s] = "errored" /\ OnClose(s))
  /\ \A s \in Sockets : WF_vars(socks[s] = "connecting" /\ (OnOpen(s) \/ OnClose(s)))
  /\ WF_vars(\E r \in wire, e \in BOOLEAN : Respond(r, e))

FairSpec == Spec /\ Fairness

Pending(c) == calls[c].pc = "pending"

LiveStates == {"connecting", "open", "errored"}

(***************************************************************************)
(* C1: whenever the connection closes while requests are pending, every    *)
(* such request is eventually failed to its caller and its entry leaves    *)
(* the pending-request table.                                              *)
(***************************************************************************)
C1_PendingFailedAfterClose ==
  \A c \in Calls :
    (Pending(c) /\ socks[calls[c].sock] = "closed")
      ~> (calls[c].pc = "done" /\ calls[c].id \notin DOMAIN pendingRequests)

(***************************************************************************)
(* C2: a call issued while not connected, during whose wait the connection *)
(* becomes established before the 1-second timeout fires, does not fail    *)
(* with ConnectionTimeout.                                                 *)
(***************************************************************************)
C2_OpenedBeforeTimeoutSucceeds ==
  \A c \in Calls : calls[c].opened => calls[c].outcome # "timeout"

(***************************************************************************)
(* C3: a call that waits and sees no connection fails with                 *)
(* ConnectionTimeout when the 1-second timer fires, and that failure takes *)
(* no request id, records no pending entry and writes nothing.             *)
(***************************************************************************)
C3_TimeoutConsumesNothing ==
  /\ [](\A c \in Calls :
          /\ (calls[c].pc \in {"poll", "wait"} /\ ~calls[c].opened) => ~isConnected
          /\ calls[c].outcome = "timeout" =>
               /\ calls[c].id = 0
               /\ ~calls[c].sent
               /\ \A i \in DOMAIN pendingRequests : pendingRequests[i] # c)
  /\ [](requestId = 1 + Cardinality({c \in Calls : calls[c].id # 0}))
  /\ [][\A c \in Calls :
          (calls[c].pc = "wait" /\ calls'[c].pc # "wait") =>
             /\ calls'[c].outcome = "timeout"
             /\ requestId' = requestId
             /\ pendingRequests' = pendingRequests
             /\ wire' = wire]_vars

C3_Witness ==
  /\ calls[1].outcome = "timeout"
  /\ ~calls[1].opened
  /\ calls[2].id = 1
  /\ calls[2].sent

(***************************************************************************)
(* C4: two calls pending at the same time are settled independently, each  *)
(* by the response carrying its own id, in the order the responses arrive. *)
(***************************************************************************)
C4_SettledByOwnId ==
  /\ [](\A c \in Calls : calls[c].by # 0 => calls[c].by = calls[c].id)
  /\ [][\A a, b \in Calls :
          (a # b /\ Pending(a) /\ Pending(b) /\ calls'[b].pc = "done") =>
             /\ calls'[a] = calls[a]
             /\ calls[a].id \in DOMAIN pendingRequests'
             /\ pendingRequests'[calls[a].id] = a]_vars

C4_Witness ==
  /\ Pending(1)
  /\ calls[1].id = 1
  /\ [id |-> 1, sock |-> ws] \in wire
  /\ calls[2].id = 2
  /\ calls[2].outcome = "resolved"

(***************************************************************************)
(* C5: a message whose id matches a pending entry settles exactly that     *)
(* entry (rejected if it has an error field, resolved otherwise) and       *)
(* removes it, so every call is settled at most once, also when a second   *)
(* message with the same id arrives later.                                 *)
(***************************************************************************)
C5_SettledOnceAndRemoved ==
  \A c \in Calls :
    /\ calls[c].settles <= 1
    /\ Pending(c) <=> (calls[c].id \in DOMAIN pendingRequests
                         /\ pendingRequests[calls[c].id] = c)
    /\ calls[c].by # 0 =>
         /\ calls[c].by = calls[c].id
         /\ calls[c].outcome = (IF calls[c].byError THEN "rpcError" ELSE "resolved")
         /\ calls[c].id \notin DOMAIN pendingRequests

C5_Witness ==
  /\ lateMsg
  /\ \E c \in Calls : calls[c].outcome = "rpcError" /\ calls[c].settles = 1

(***************************************************************************)
(* C6: the close handler schedules at most maxReconnectAttempts reconnect  *)
(* timers between two opens; at the limit a further close schedules none   *)
(* and shows the terminal disconnected state.                              *)
(***************************************************************************)
Closing == \E s \in Sockets : socks[s] # "closed" /\ socks'[s] = "closed"

C6_ReconnectBounded ==
  /\ [](reconnectAttempts \in 0..5)
  /\ [][reconnectTimers' > reconnectTimers =>
          /\ Closing
          /\ reconnectAttempts < 5
          /\ reconnectAttempts' = reconnectAttempts + 1
          /\ reconnectTimers' = reconnectTimers + 1]_vars
  /\ [][(Closing /\ reconnectAttempts = 5) =>
          /\ reconnectTimers' = reconnectTimers
          /\ reconnectAttempts' = 5
          /\ connectionStatus' = "disconnected"]_vars

C6_Witness ==
  /\ reconnectAttempts = 5
  /\ connectionStatus = "disconnected"
  /\ reconnectTimers = 0
  /\ ws = 0

(***************************************************************************)
(* C7: the k-th consecutive reconnect attempt (k = 1..5) is scheduled      *)
(* after min(1000*k, 5000) ms; the delays are non-decreasing and never     *)
(* exceed 5000 ms.                                                         *)
(***************************************************************************)
C7_DelaySchedule ==
  /\ [](lastDelay <= 5000)
  /\ [](reconnectAttempts >= 1 =>
          lastDelay = (IF 1000 * reconnectAttempts <= 5000
                         THEN 1000 * reconnectAttempts ELSE 5000))
  /\ [][(reconnectAttempts >= 1 /\ reconnectAttempts' > reconnectAttempts) =>
          lastDelay' >= lastDelay]_vars

C7_Witness ==
  /\ reconnectAttempts = 5
  /\ lastDelay = 5000
  /\ reconnectTimers > 0

(***************************************************************************)
(* C8: connectWebSocket is idempotent: invoked while a socket is           *)
(* connecting or connected it creates nothing, so at most one live         *)
(* WebSocket exists at any time.                                           *)
(***************************************************************************)
C8_SingleConnection ==
  /\ [](Cardinality({s \in Sockets : socks[s] \in LiveStates}) <= 1)
  /\ [](\A s \in Sockets : socks[s] \in LiveStates => ws = s)
  /\ [][\A s \in Sockets : socks'[s] = "connecting" => (socks[s] = "connecting" \/ ws = 0)]_vars

C8_Witness ==
  /\ \E c \in Calls : calls[c].pc = "wait"
  /\ ws = 1
  /\ socks[1] = "connecting"
  /\ socks[2] = "none"

(***************************************************************************)
(* THE RECORD STORE.                                                       *)
(*                                                                         *)
(* The repository holds the store twice: in app.js (build "app",           *)
(* src/unnamed/part_002) and in components/database/database.js (build     *)
(* "database", src/unnamed/part_000).  Each handler is an async function;  *)
(* its first action runs it up to the request it sends, its second action  *)
(* is the continuation run when the response arrives.  A request that      *)
(* sendRpcRequest cannot send (no connection within the timeout) fails     *)
(* the handler without any effect at the node.                             *)
(***************************************************************************)
Count(kind) == Cardinality({i \in DOMAIN ops : ops[i].kind = kind})

\* began, ended: the clock when the handler was entered and when it
\* returned or threw; stored is a ghost, the schema the database had
\* when an add-record handler was entered; fetched is a ghost, whether
\* retrieveBlob obtained a response for each index entry visited so far.
NewOp(kind) ==
  [kind |-> kind, ns |-> 0, schema |-> NoSchema, stored |-> NoSchema,
   data |-> NoData, token |-> 0, began |-> clock, ended |-> 0,
   sent |-> FALSE, pc |-> "done", outcome |-> "none", height |-> 0,
   entries |-> <<>>, i |-> 0, acc |-> <<>>, fetched |-> <<>>]

Sending(op) == [op EXCEPT !.sent = TRUE, !.pc = "submitting"]

Finish(op, outcome) ==
  [op EXCEPT !.pc = "done", !.outcome = outcome, !.ended = clock]

\* getOrCreateAuthToken(): the stored token, else a newly generated one.
Token == IF dbAuthToken # 0 THEN dbAuthToken ELSE tokenCount + 1

\* generateAuthToken() and setItem whether or not a token is stored.
GetOrCreateAuthTokenRegenerating ==
  /\ dbAuthToken' = tokenCount + 1
  /\ tokenCount' = tokenCount + 1

GetOrCreateAuthToken ==
  /\ dbAuthToken' = Token
  /\ tokenCount' = IF dbAuthToken # 0 THEN tokenCount ELSE tokenCount + 1

\* encryptData / decryptData: AES-GCM under a key derived from the token;
\* the ciphertext authenticates only under the token it was made with.
Decrypts(blob, token) == blob.token = token

\* The blob a submit of op places on the chain at height h.
Blob(op, h) ==
  [ns |-> op.ns, height |-> h,
   kind |-> IF op.kind = "init" THEN "schema" ELSE "record",
   token |-> op.token, schema |-> op.schema, data |-> op.data,
   created |-> op.began]

\* The node places an accepted blob in the block being built or the next.
NextHeights ==
  IF chain = <<>> THEN {1}
  ELSE {chain[Len(chain)].height, chain[Len(chain)].height + 1}

\* blob.GetAll(height, [namespace])
BlobsAt(h, ns) == SelectSeq(chain, LAMBDA b : b.height = h /\ b.ns = ns)

\* blob.GetAll(0, namespace) as database.js issues it
BlobsOf(ns) == SelectSeq(chain, LAMBDA b : b.ns = ns)

(***************************************************************************)
(* validateDataAgainstSchema(data, schema)                                 *)
(***************************************************************************)
\* schema.fields: undefined unless the schema has that key, and a for-in
\* loop over undefined runs no iteration.
SchemaFields(schema) ==
  IF schema.shape = "fields" THEN schema.decl
  ELSE [f \in FieldNames |-> Undeclared]

TypeMismatch(v, t) ==
  \/ t = "string" /\ TypeOf(v) # "string"
  \/ t = "number" /\ TypeOf(v) # "number"
  \/ t = "boolean" /\ TypeOf(v) # "boolean"
  \/ t = "object" /\ (TypeOf(v) # "object" \/ IsArray(v))
  \/ t = "array" /\ ~IsArray(v)

FieldError(v, d) ==
  IF d.required /\ v.type \in {"undefined", "null"} THEN "required"
  ELSE IF v.type = "undefined" THEN "none"
  ELSE IF d.type # "none" /\ TypeMismatch(v, d.type) THEN d.type
  ELSE "none"

ValidateDataAgainstSchema(data, schema) ==
  LET fields == SchemaFields(schema)
      bad == {k \in DOMAIN FieldOrder :
                /\ fields[FieldOrder[k]].declared
                /\ FieldError(data[FieldOrder[k]], fields[FieldOrder[k]]) # "none"}
      first == CHOOSE k \in bad : \A j \in bad : k <= j
  IN IF bad = {} THEN [isValid |-> TRUE, field |-> "none", error |-> "none"]
     ELSE [isValid |-> FALSE, field |-> FieldOrder[first],
           error |-> FieldError(data[FieldOrder[first]], fields[FieldOrder[first]])]

(***************************************************************************)
(* app.js                                                                  *)
(***************************************************************************)
\* retrieveDatabaseSchema(): the first blob at the schema height, decrypted.
AppStoredSchema ==
  LET bs == BlobsAt(dbSchemaHeight, dbNamespace)
  IN IF bs # <<>> /\ Decrypts(bs[1], Token) /\ bs[1].kind = "schema"
     THEN bs[1].schema ELSE NoSchema

\* initDbForm submit handler and initializeDatabase, up to submitBlob.
AppInitDb(ns, schema, connected) ==
  /\ build = "app"
  /\ Count("init") < MaxInits
  /\ GetOrCreateAuthToken
  /\ LET op == [NewOp("init") EXCEPT !.ns = ns, !.schema = schema, !.token = Token]
     IN ops' = Append(ops, IF connected THEN Sending(op) ELSE Finish(op, "failed"))
  /\ clock' = clock + 1
  /\ UNCHANGED <<build, dbNamespace, dbSchemaHeight, dbRecords, dbSchema, chain>>
  /\ UNCHANGED <<transportVars, codecVars, streamVars>>

\* initializeDatabase after await submitBlob(...)
AppInitDbResponse(i, ok) ==
  /\ build = "app"
  /\ ops[i].kind = "init" /\ ops[i].pc = "submitting"
  /\ IF ok
     THEN \E h \in NextHeights :
            /\ chain' = Append(chain, Blob(ops[i], h))
            /\ dbNamespace' = ops[i].ns
            /\ dbSchemaHeight' = h
            /\ dbRecords' = [present |-> TRUE, list |-> <<>>]
            /\ ops' = [ops EXCEPT ![i] = [Finish(@, "ok") EXCEPT !.height = h]]
     ELSE /\ ops' = [ops EXCEPT ![i] = Finish(@, "rpcError")]
          /\ UNCHANGED <<chain, dbNamespace, dbSchemaHeight, dbRecords>>
  /\ clock' = clock + 1
  /\ UNCHANGED <<build, dbAuthToken, dbSchema, tokenCount>>
  /\ UNCHANGED <<transportVars, codecVars, streamVars>>

\* addRecordForm submit handler and addDatabaseRecord, up to submitBlob.
AppAddRecord(data, connected) ==
  /\ build = "app"
  /\ Count("append") < MaxAppends
  /\ IF dbNamespace = 0 \/ dbSchemaHeight = 0
     THEN /\ ops' = Append(ops, Finish([NewOp("append") EXCEPT !.data = data],
                                       "notInitialized"))
          /\ UNCHANGED <<dbAuthToken, tokenCount>>
     ELSE /\ GetOrCreateAuthToken
          /\ LET op == [NewOp("append") EXCEPT !.ns = dbNamespace, !.data = data,
                          !.stored = AppStoredSchema, !.token = Token]
             IN ops' = Append(ops, IF connected THEN Sending(op)
                                   ELSE Finish(op, "failed"))
  /\ clock' = clock + 1
  /\ UNCHANGED <<build, dbNamespace, dbSchemaHeight, dbRecords, dbSchema, chain>>
  /\ UNCHANGED <<transportVars, codecVars, streamVars>>

\* The completion with the index rewritten instead of extended.
AppAddRecordResponseRewrite(i, ok) ==
  /\ build = "app"
  /\ ops[i].kind = "append" /\ ops[i].pc = "submitting"
  /\ IF ok
     THEN \E h \in NextHeights :
            /\ chain' = Append(chain, Blob(ops[i], h))
            /\ dbRecords' = [present |-> TRUE,
                             list |-> <<[height |-> h, timestamp |-> clock]>>]
            /\ ops' = [ops EXCEPT ![i] = [Finish(@, "ok") EXCEPT !.height = h]]
     ELSE /\ ops' = [ops EXCEPT ![i] = Finish(@, "rpcError")]
          /\ UNCHANGED <<chain, dbRecords>>
  /\ clock' = clock + 1
  /\ UNCHANGED <<build, dbNamespace, dbSchemaHeight, dbAuthToken, dbSchema,
                 tokenCount>>
  /\ UNCHANGED <<transportVars, codecVars, streamVars>>

\* addDatabaseRecord after await submitBlob(...)
\* The completion writing back the index as it was read when the call
\* began, before the await, with the new pointer pushed.
AppAddRecordResponseFromSnapshot(i, ok) ==
  /\ build = "app"
  /\ ops[i].kind = "append" /\ ops[i].pc = "submitting"
  /\ IF ok
     THEN \E h \in NextHeights :
            /\ chain' = Append(chain, Blob(ops[i], h))
            /\ dbRecords' = [present |-> TRUE,
                             list |-> Append(SelectSeq(dbRecords.list,
                                               LAMBDA e : e.timestamp < ops[i].began),
                                             [height |-> h, timestamp |-> clock])]
            /\ ops' = [ops EXCEPT ![i] = [Finish(@, "ok") EXCEPT !.height = h]]
     ELSE /\ ops' = [ops EXCEPT ![i] = Finish(@, "rpcError")]
          /\ UNCHANGED <<chain, dbRecords>>
  /\ clock' = clock + 1
  /\ UNCHANGED <<build, dbNamespace, dbSchemaHeight, dbAuthToken, dbSchema,
                 tokenCount>>
  /\ UNCHANGED <<transportVars, codecVars, streamVars>>

AppAddRecordResponse(i, ok) ==
  /\ build = "app"
  /\ ops[i].kind = "append" /\ ops[i].pc = "submitting"
  /\ IF ok
     THEN \E h \in NextHeights :
            /\ chain' = Append(chain, Blob(ops[i], h))
            /\ dbRecords' = [present |-> TRUE,
                             list |-> Append(dbRecords.list,
                                             [height |-> h, timestamp |-> clock])]
            /\ ops' = [ops EXCEPT ![i] = [Finish(@, "ok") EXCEPT !.height = h]]
     ELSE /\ ops' = [ops EXCEPT ![i] = Finish(@, "rpcError")]
          /\ UNCHANGED <<chain, dbRecords>>
  /\ clock' = clock + 1
  /\ UNCHANGED <<build, dbNamespace, dbSchemaHeight, dbAuthToken, dbSchema,
                 tokenCount>>
  /\ UNCHANGED <<transportVars, codecVars, streamVars>>

\* retrieveDatabaseSchema(): nothing is stored after its await, so the
\* fetch and the decryption are taken with the call.  fetched: retrieveBlob
\* returned a blob.
AppGetSchema(fetched) ==
  /\ build = "app"
  /\ Count("schema") < MaxSchemaReads
  /\ IF dbNamespace = 0 \/ dbSchemaHeight = 0
     THEN /\ ops' = Append(ops, Finish(NewOp("schema"), "notInitialized"))
          /\ UNCHANGED <<dbAuthToken, tokenCount>>
     ELSE /\ GetOrCreateAuthToken
          /\ LET bs == BlobsAt(dbSchemaHeight, dbNamespace)
                 op == [NewOp("schema") EXCEPT !.ns = dbNamespace, !.token = Token,
                                               !.height = dbSchemaHeight,
                                               !.fetched = <<fetched>>]
             IN ops' = Append(ops,
                  IF ~fetched \/ bs = <<>> THEN Finish(op, "failed")
                  ELSE IF ~Decrypts(bs[1], Token) THEN Finish(op, "decryptFailed")
                  ELSE Finish([op EXCEPT !.schema = bs[1].schema], "ok"))
  /\ clock' = clock + 1
  /\ UNCHANGED <<build, dbNamespace, dbSchemaHeight, dbRecords, dbSchema, chain>>
  /\ UNCHANGED <<transportVars, codecVars, streamVars>>

\* retrieveDatabaseRecords up to its first await retrieveBlob(...)
AppListRecords ==
  /\ build = "app"
  /\ Count("list") < MaxLists
  /\ IF dbNamespace = 0
     THEN /\ ops' = Append(ops, Finish(NewOp("list"), "notInitialized"))
          /\ UNCHANGED <<dbAuthToken, tokenCount>>
     ELSE IF dbRecords.list = <<>>
     THEN /\ ops' = Append(ops, Finish(NewOp("list"), "ok"))
          /\ UNCHANGED <<dbAuthToken, tokenCount>>
     ELSE /\ GetOrCreateAuthToken
          /\ ops' = Append(ops, [NewOp("list") EXCEPT !.ns = dbNamespace,
                                   !.token = Token, !.entries = dbRecords.list,
                                   !.i = 1, !.pc = "fetching"])
  /\ clock' = clock + 1
  /\ UNCHANGED <<build, dbNamespace, dbSchemaHeight, dbRecords, dbSchema, chain>>
  /\ UNCHANGED <<transportVars, codecVars, streamVars>>

\* The loop with the inner try/catch left out: a failing entry ends the
\* listing with an error.
AppListFetchAborting(i, fetched) ==
  /\ build = "app"
  /\ ops[i].kind = "list" /\ ops[i].pc = "fetching"
  /\ LET op == ops[i]
         e == op.entries[op.i]
         bs == BlobsAt(e.height, op.ns)
         got == fetched /\ bs # <<>> /\ Decrypts(bs[1], op.token)
         next == [op EXCEPT !.acc = Append(@, [kind |-> bs[1].kind,
                                               data |-> bs[1].data,
                                               created |-> bs[1].created,
                                               height |-> e.height]),
                            !.i = @ + 1, !.fetched = Append(@, fetched)]
         last == op.i = Len(op.entries)
     IN /\ ops' = [ops EXCEPT ![i] =
                     IF ~got
                     THEN Finish([op EXCEPT !.fetched = Append(@, fetched)],
                                 "rpcError")
                     ELSE IF last THEN Finish(next, "ok") ELSE next]
        /\ clock' = IF last \/ ~got THEN clock + 1 ELSE clock
  /\ UNCHANGED <<build, dbNamespace, dbSchemaHeight, dbRecords, dbAuthToken,
                 dbSchema, chain, tokenCount>>
  /\ UNCHANGED <<transportVars, codecVars, streamVars>>

\* One iteration of the loop of retrieveDatabaseRecords: retrieveBlob
\* returns the first blob at the entry's height (null when the fetch fails
\* or finds nothing), which is decrypted and pushed, else skipped.
AppListFetch(i, fetched) ==
  /\ build = "app"
  /\ ops[i].kind = "list" /\ ops[i].pc = "fetching"
  /\ LET op == ops[i]
         e == op.entries[op.i]
         bs == BlobsAt(e.height, op.ns)
         got == fetched /\ bs # <<>> /\ Decrypts(bs[1], op.token)
         acc == IF got
                THEN Append(op.acc, [kind |-> bs[1].kind, data |-> bs[1].data,
                                     created |-> bs[1].created,
                                     height |-> e.height])
                ELSE op.acc
         next == [op EXCEPT !.acc = acc, !.i = @ + 1,
                            !.fetched = Append(@, fetched)]
         last == op.i = Len(op.entries)
     IN /\ ops' = [ops EXCEPT ![i] = IF last THEN Finish(next, "ok") ELSE next]
        /\ clock' = IF last THEN clock + 1 ELSE clock
  /\ UNCHANGED <<build, dbNamespace, dbSchemaHeight, dbRecords, dbAuthToken,
                 dbSchema, chain, tokenCount>>
  /\ UNCHANGED <<transportVars, codecVars, streamVars>>

\* clearDatabaseCache() of app.js removes all four keys.
AppClearDatabaseCache ==
  /\ build = "app"
  /\ Count("clear") < MaxClears
  /\ dbNamespace' = 0
  /\ dbSchemaHeight' = 0
  /\ dbRecords' = AbsentList
  /\ dbAuthToken' = 0
  /\ ops' = Append(ops, Finish(NewOp("clear"), "ok"))
  /\ clock' = clock + 1
  /\ UNCHANGED <<build, dbSchema, chain, tokenCount>>
  /\ UNCHANGED <<transportVars, codecVars, streamVars>>

(***************************************************************************)
(* components/database/database.js                                         *)
(***************************************************************************)
\* records.sort((a, b) => new Date(b.created) - new Date(a.created)):
\* a stable sort, latest creation time first.
InsertByCreated(r, s) ==
  LET k == Cardinality({j \in DOMAIN s : s[j].created >= r.created})
  IN SubSeq(s, 1, k) \o <<r>> \o SubSeq(s, k + 1, Len(s))

RECURSIVE SortNewestFirst(_)
SortNewestFirst(s) ==
  IF s = <<>> THEN <<>>
  ELSE InsertByCreated(s[Len(s)], SortNewestFirst(SubSeq(s, 1, Len(s) - 1)))

\* The loop of retrieveDatabaseRecords over response.result.blobs:
\* metadata blobs are skipped, a record blob that does not decrypt is
\* skipped, the others are pushed with the blob's height.
RECURSIVE ProcessBlobs(_, _)
ProcessBlobs(bs, token) ==
  IF bs = <<>> THEN <<>>
  ELSE LET b == bs[Len(bs)]
           rest == ProcessBlobs(SubSeq(bs, 1, Len(bs) - 1), token)
       IN IF b.kind = "record" /\ Decrypts(b, token)
          THEN Append(rest, [kind |-> b.kind, data |-> b.data,
                             created |-> b.created, height |-> b.height])
          ELSE rest

\* setupInitDbForm submit handler and initializeDatabase, up to the
\* blob.Submit request.
DbInitDb(ns, schema, connected) ==
  /\ build = "database"
  /\ Count("init") < MaxInits
  /\ GetOrCreateAuthToken
  /\ LET op == [NewOp("init") EXCEPT !.ns = ns, !.schema = schema, !.token = Token]
     IN ops' = Append(ops, IF connected THEN Sending(op) ELSE Finish(op, "failed"))
  /\ clock' = clock + 1
  /\ UNCHANGED <<build, dbNamespace, dbSchemaHeight, dbRecords, dbSchema, chain>>
  /\ UNCHANGED <<transportVars, codecVars, streamVars>>

\* initializeDatabase after await sendRpcRequest('blob.Submit', params)
DbInitDbResponse(i, ok) ==
  /\ build = "database"
  /\ ops[i].kind = "init" /\ ops[i].pc = "submitting"
  /\ IF ok
     THEN \E h \in NextHeights :
            /\ chain' = Append(chain, Blob(ops[i], h))
            /\ dbNamespace' = ops[i].ns
            /\ dbSchema' = [present |-> TRUE, schema |-> ops[i].schema]
            /\ ops' = [ops EXCEPT ![i] = [Finish(@, "ok") EXCEPT !.height = h]]
     ELSE /\ ops' = [ops EXCEPT ![i] = Finish(@, "rpcError")]
          /\ UNCHANGED <<chain, dbNamespace, dbSchema>>
  /\ clock' = clock + 1
  /\ UNCHANGED <<build, dbSchemaHeight, dbRecords, dbAuthToken, tokenCount>>
  /\ UNCHANGED <<transportVars, codecVars, streamVars>>

\* setupAddRecordForm submit handler: retrieveDatabaseSchema (the cached
\* schema; the namespace and the cached schema are written and removed
\* together, so without a cached schema there is no namespace and it
\* throws), validateDataAgainstSchema, then addDatabaseRecord up to the
\* blob.Submit request.
DbAddRecord(data, connected) ==
  /\ build = "database"
  /\ Count("append") < MaxAppends
  /\ LET base == [NewOp("append") EXCEPT !.data = data, !.stored = dbSchema.schema]
     IN IF ~dbSchema.present \/ dbNamespace = 0
        THEN /\ ops' = Append(ops, Finish(base, "notInitialized"))
             /\ UNCHANGED <<dbAuthToken, tokenCount>>
        ELSE IF ~ValidateDataAgainstSchema(data, dbSchema.schema).isValid
        THEN /\ ops' = Append(ops, Finish(base, "invalid"))
             /\ UNCHANGED <<dbAuthToken, tokenCount>>
        ELSE /\ GetOrCreateAuthToken
             /\ LET op == [base EXCEPT !.ns = dbNamespace, !.token = Token]
                IN ops' = Append(ops, IF connected THEN Sending(op)
                                      ELSE Finish(op, "failed"))
  /\ clock' = clock + 1
  /\ UNCHANGED <<build, dbNamespace, dbSchemaHeight, dbRecords, dbSchema, chain>>
  /\ UNCHANGED <<transportVars, codecVars, streamVars>>

\* addDatabaseRecord after await sendRpcRequest('blob.Submit', params):
\* nothing is written to localStorage.
DbAddRecordResponse(i, ok) ==
  /\ build = "database"
  /\ ops[i].kind = "append" /\ ops[i].pc = "submitting"
  /\ IF ok
     THEN \E h \in NextHeights :
            /\ chain' = Append(chain, Blob(ops[i], h))
            /\ ops' = [ops EXCEPT ![i] = [Finish(@, "ok") EXCEPT !.height = h]]
     ELSE /\ ops' = [ops EXCEPT ![i] = Finish(@, "rpcError")]
          /\ UNCHANGED chain
  /\ clock' = clock + 1
  /\ UNCHANGED <<build, dbNamespace, dbSchemaHeight, dbRecords, dbAuthToken,
                 dbSchema, tokenCount>>
  /\ UNCHANGED <<transportVars, codecVars, streamVars>>

\* retrieveDatabaseRecords up to the blob.GetAll request.
DbListRecords(connected) ==
  /\ build = "database"
  /\ Count("list") < MaxLists
  /\ IF dbNamespace = 0
     THEN /\ ops' = Append(ops, Finish(NewOp("list"), "notInitialized"))
          /\ UNCHANGED <<dbAuthToken, tokenCount>>
     ELSE /\ GetOrCreateAuthToken
          /\ LET op == [NewOp("list") EXCEPT !.ns = dbNamespace, !.token = Token]
             IN ops' = Append(ops, IF connected
                                   THEN [Sending(op) EXCEPT !.pc = "fetching"]
                                   ELSE Finish(op, "failed"))
  /\ clock' = clock + 1
  /\ UNCHANGED <<build, dbNamespace, dbSchemaHeight, dbRecords, dbSchema, chain>>
  /\ UNCHANGED <<transportVars, codecVars, streamVars>>

\* retrieveDatabaseRecords after await sendRpcRequest('blob.GetAll', ...)
DbListResponse(i, ok) ==
  /\ build = "database"
  /\ ops[i].kind = "list" /\ ops[i].pc = "fetching"
  /\ LET op == ops[i]
         records == ProcessBlobs(BlobsOf(op.ns), op.token)
     IN ops' = [ops EXCEPT ![i] =
                  IF ok
                  THEN [Finish(op, "ok") EXCEPT !.acc = SortNewestFirst(records)]
                  ELSE Finish(op, "rpcError")]
  /\ clock' = clock + 1
  /\ UNCHANGED <<build, dbNamespace, dbSchemaHeight, dbRecords, dbAuthToken,
                 dbSchema, chain, tokenCount>>
  /\ UNCHANGED <<transportVars, codecVars, streamVars>>

\* clearDatabaseCache() of database.js keeps the token.
DbClearDatabaseCache ==
  /\ build = "database"
  /\ Count("clear") < MaxClears
  /\ dbNamespace' = 0
  /\ dbSchema' = AbsentSchema
  /\ ops' = Append(ops, Finish(NewOp("clear"), "ok"))
  /\ clock' = clock + 1
  /\ UNCHANGED <<build, dbSchemaHeight, dbRecords, dbAuthToken, chain, tokenCount>>
  /\ UNCHANGED <<transportVars, codecVars, streamVars>>

(***************************************************************************)
(* The record store as a whole.                                            *)
(***************************************************************************)
StoreNext ==
  \/ \E ns \in StoreNamespaces, schema \in SchemaInputs, connected \in BOOLEAN :
       Count("init") < StoreInits /\ AppInitDb(ns, schema, connected)
  \/ \E i \in DOMAIN ops, ok \in BOOLEAN : AppInitDbResponse(i, ok)
  \/ \E data \in RecordInputs, connected \in BOOLEAN : AppAddRecord(data, connected)
  \/ \E i \in DOMAIN ops, ok \in BOOLEAN : AppAddRecordResponse(i, ok)
  \/ AppListRecords
  \/ \E i \in DOMAIN ops, fetched \in BOOLEAN : AppListFetch(i, fetched)
  \/ AppClearDatabaseCache
  \/ \E ns \in StoreNamespaces, schema \in SchemaInputs, connected \in BOOLEAN :
       Count("init") < StoreInits /\ DbInitDb(ns, schema, connected)
  \/ \E i \in DOMAIN ops, ok \in BOOLEAN : DbInitDbResponse(i, ok)
  \/ \E data \in RecordInputs, connected \in BOOLEAN : DbAddRecord(data, connected)
  \/ \E i \in DOMAIN ops, ok \in BOOLEAN : DbAddRecordResponse(i, ok)
  \/ \E connected \in BOOLEAN : DbListRecords(connected)
  \/ \E i \in DOMAIN ops, ok \in BOOLEAN : DbListResponse(i, ok)
  \/ DbClearDatabaseCache

StoreSpec == Init /\ [][StoreNext]_vars

(***************************************************************************)
(* The same handlers with the database initialized up to MaxInits times,   *)
(* one schema text and one record text.                                    *)
(***************************************************************************)
ReinitSchemas == {[shape |-> "flat", decl |-> [name |-> NameDecl, age |-> Undeclared]]}

ReinitRecords == {[name |-> JsString("a"), age |-> Undefined]}

\* Two valid user namespaces.
ReinitNamespaces == {1, 2}

ReinitNext ==
  \/ \E ns \in ReinitNamespaces, schema \in ReinitSchemas, connected \in BOOLEAN :
       AppInitDb(ns, schema, connected)
  \/ \E i \in DOMAIN ops, ok \in BOOLEAN : AppInitDbResponse(i, ok)
  \/ \E data \in ReinitRecords, connected \in BOOLEAN :
       Count("append") < ReinitAppends /\ AppAddRecord(data, connected)
  \/ \E i \in DOMAIN ops, ok \in BOOLEAN : AppAddRecordResponse(i, ok)
  \/ AppListRecords
  \/ \E i \in DOMAIN ops, fetched \in BOOLEAN : AppListFetch(i, fetched)
  \/ AppClearDatabaseCache
  \/ \E fetched \in BOOLEAN : AppGetSchema(fetched)
  \/ \E ns \in ReinitNamespaces, schema \in ReinitSchemas, connected \in BOOLEAN :
       DbInitDb(ns, schema, connected)
  \/ \E i \in DOMAIN ops, ok \in BOOLEAN : DbInitDbResponse(i, ok)
  \/ \E data \in ReinitRecords, connected \in BOOLEAN :
       Count("append") < ReinitAppends /\ DbAddRecord(data, connected)
  \/ \E i \in DOMAIN ops, ok \in BOOLEAN : DbAddRecordResponse(i, ok)
  \/ \E connected \in BOOLEAN : DbListRecords(connected)
  \/ \E i \in DOMAIN ops, ok \in BOOLEAN : DbListResponse(i, ok)
  \/ DbClearDatabaseCache

ReinitSpec == Init /\ [][ReinitNext]_vars

(***************************************************************************)
(* C9.  An add-record call whose data lacks (or holds null in) a field the *)
(* database's schema declares required is rejected by schema validation    *)
(* and no blob.Submit is sent for it; a call on an initialized database    *)
(* whose data has every required field, and optional fields of the         *)
(* declared type, is not rejected by validation.  The declarations are     *)
(* read from the schema in either of its two shapes.                       *)
(***************************************************************************)
C9_RequiredFieldsEnforced ==
  \A i \in DOMAIN ops :
    ops[i].kind = "append" =>
      LET decl == ops[i].stored.decl
          data == ops[i].data
          missing == \E f \in FieldNames :
                       /\ decl[f].declared /\ decl[f].required
                       /\ data[f].type \in {"undefined", "null"}
          illTyped == \E f \in FieldNames :
                        /\ decl[f].declared /\ data[f].type # "undefined"
                        /\ decl[f].type # data[f].type
      IN /\ missing => (ops[i].outcome = "invalid" /\ ~ops[i].sent)
         /\ (~missing /\ ~illTyped) => ops[i].outcome # "invalid"

(***************************************************************************)
(* C10.  End to end, with a substrate that accepts every request: after    *)
(* the schema {"name": {"type": "string", "required": true}} has been      *)
(* initialized, {"name": "a"} has been appended and an append of a record  *)
(* without name has been attempted, one after the other, the last append   *)
(* was rejected by validation, the listing holds exactly one record, its   *)
(* name is "a", and the index of app.js holds exactly one entry.           *)
(***************************************************************************)
C10_ScenarioListsOneRecord ==
  ( /\ Len(ops) = 4
    /\ ops[1].kind = "init" /\ ops[1].outcome = "ok"
    /\ ops[1].schema = [shape |-> "flat",
                        decl |-> [name |-> NameDecl, age |-> Undeclared]]
    /\ ops[2].kind = "append" /\ ops[2].outcome = "ok"
    /\ ops[2].data = [name |-> JsString("a"), age |-> Undefined]
    /\ ops[3].kind = "append" /\ ops[3].pc = "done"
    /\ ops[3].data = NoData /\ ops[3].outcome \notin {"failed", "rpcError"}
    /\ ops[4].kind = "list" /\ ops[4].outcome = "ok"
    /\ Len(ops[4].acc) >= Len(ops[4].entries)
    /\ \A k \in 1..3 : ops[k].ended < ops[k + 1].began )
  => /\ ops[3].outcome = "invalid"
     /\ Len(ops[4].acc) = 1
     /\ ops[4].acc[1].data = [name |-> JsString("a"), age |-> Undefined]
     /\ build = "app" => Len(dbRecords.list) = 1

(***************************************************************************)
(* What a listing gives its caller and what displayDatabaseRecords shows.  *)
(***************************************************************************)
\* The value retrieveDatabaseRecords returns (or that it threw).
Listing(op) == [outcome |-> op.outcome, records |-> op.acc]

\* return [] of retrieveDatabaseRecords for an empty index.
EmptyListing == [outcome |-> "ok", records |-> <<>>]

\* displayDatabaseRecords: the element made visible for a listing.
Displayed(op) ==
  IF op.outcome # "ok" THEN "recordsError"
  ELSE IF Len(op.acc) = 0 THEN "noRecordsMsg"
  ELSE "recordsTable"

(***************************************************************************)
(* C11.  A listing of app.js over a non-empty index every entry of which   *)
(* leads to a record encrypted under another token than the one now        *)
(* stored returns no record, and what it returns and displays differs      *)
(* from the listing of an empty database.                                  *)
(***************************************************************************)
C11_TokenLossDistinguishable ==
  \A i \in DOMAIN ops :
    ( /\ build = "app"
      /\ ops[i].kind = "list" /\ ops[i].pc = "done"
      /\ Len(ops[i].entries) > 0
      /\ \A k \in DOMAIN ops[i].entries :
           LET bs == BlobsAt(ops[i].entries[k].height, ops[i].ns)
           IN /\ bs # <<>> /\ bs[1].kind = "record"
              /\ ~Decrypts(bs[1], ops[i].token) )
    => /\ ops[i].acc = <<>>
       /\ Listing(ops[i]) # EmptyListing
       /\ Displayed(ops[i]) # "noRecordsMsg"

C13_NewestFirst ==
  \A i \in DOMAIN ops :
    (ops[i].kind = "list" /\ ops[i].outcome = "ok") =>
      \A j, k \in DOMAIN ops[i].acc :
        ( /\ ops[i].acc[j].kind = "record" /\ ops[i].acc[k].kind = "record"
          /\ ops[i].acc[j].created > ops[i].acc[k].created ) => j < k

(***************************************************************************)
(* C14.  The step in which an add-record handler of app.js ends extends    *)
(* the Local Index by exactly one pointer, at its end, holding the height  *)
(* the node returned for that submit, when the handler succeeded, and      *)
(* leaves the index as it was when the handler failed.                     *)
(***************************************************************************)
C14_AppendOnePointer ==
  [][\A i \in DOMAIN ops' :
       ( /\ build = "app"
         /\ ops'[i].kind = "append" /\ ops'[i].pc = "done"
         /\ (i \in DOMAIN ops => ops[i].pc # "done") )
       => IF ops'[i].outcome = "ok"
          THEN /\ dbRecords'.present
               /\ dbRecords'.list =
                    Append(dbRecords.list,
                           [height |-> ops'[i].height, timestamp |-> clock])
               /\ chain' = Append(chain, Blob(ops[i], ops'[i].height))
          ELSE dbRecords' = dbRecords]_vars

\* One submit was refused and a later one accepted: the index holds the
\* single pointer to the height returned for the accepted one.
C14_Witness ==
  \E i, j \in DOMAIN ops :
    /\ build = "app"
    /\ ops[i].kind = "append" /\ ops[i].outcome = "rpcError"
    /\ ops[j].kind = "append" /\ ops[j].outcome = "ok"
    /\ ops[i].ended < ops[j].began
    /\ dbRecords.list = <<[height |-> ops[j].height,
                           timestamp |-> ops[j].ended]>>

(***************************************************************************)
(* C15.  The Local Index is append-only: in every step other than a        *)
(* clearDatabaseCache the index before the step is a prefix of the index   *)
(* after it.                                                               *)
(***************************************************************************)
C15_IndexAppendOnly ==
  [][ ~(Len(ops') > Len(ops) /\ ops'[Len(ops')].kind = "clear")
      => /\ Len(dbRecords'.list) >= Len(dbRecords.list)
         /\ SubSeq(dbRecords'.list, 1, Len(dbRecords.list)) = dbRecords.list
    ]_vars

(***************************************************************************)
(* C16.  When clearDatabaseCache has run, the namespace, the schema        *)
(* position, the Local Index and the secret token are all absent from      *)
(* local storage.                                                          *)
(***************************************************************************)
C16_ClearRemovesAll ==
  [][ (Len(ops') > Len(ops) /\ ops'[Len(ops')].kind = "clear")
      => /\ dbNamespace' = 0
         /\ dbSchemaHeight' = 0
         /\ dbRecords' = AbsentList
         /\ dbAuthToken' = 0
    ]_vars

(***************************************************************************)
(* C17.  The step in which an initialization ends stores the namespace     *)
(* and, as schema position, the height the node returned, when it          *)
(* succeeded, and leaves the stored namespace, schema position and Local   *)
(* Index as they were when it failed; no other step but a                  *)
(* clearDatabaseCache changes the stored namespace or schema position.     *)
(***************************************************************************)
InitEnds(i) ==
  /\ i \in DOMAIN ops'
  /\ ops'[i].kind = "init" /\ ops'[i].pc = "done"
  /\ i \in DOMAIN ops => ops[i].pc # "done"

C17_InitPersistsOnSuccess ==
  [][ /\ \A i \in DOMAIN ops' :
           InitEnds(i) =>
             IF ops'[i].outcome = "ok"
             THEN /\ dbNamespace' = ops'[i].ns
                  /\ dbSchemaHeight' = ops'[i].height
                  /\ chain' = Append(chain, Blob(ops[i], ops'[i].height))
             ELSE UNCHANGED <<dbNamespace, dbSchemaHeight, dbRecords>>
      /\ (dbNamespace' # dbNamespace \/ dbSchemaHeight' # dbSchemaHeight)
           => \/ Len(ops') > Len(ops) /\ ops'[Len(ops')].kind = "clear"
              \/ \E i \in DOMAIN ops' : InitEnds(i) /\ ops'[i].outcome = "ok"
    ]_vars

(***************************************************************************)
(* Namespaces.  A byte string is a sequence of numbers 0..255, a hex       *)
(* string a sequence of one-character strings, a base64 string a sequence  *)
(* of sextets 0..63 with 64 standing for the padding character '='.        *)
(***************************************************************************)
NamespaceSize == 29     \* bytes of a namespace: version and 28 bytes of ID
ZeroPrefix == 18        \* leading zero bytes of a version-0 ID
IdSize == 10            \* bytes of a version-0 ID the user chooses
CopyLimit == 28         \* bytes utils/common.js copies from the input
MaxTextLen == 12        \* longest text given to createValidNamespace

HexDigits ==
  <<"0", "1", "2", "3", "4", "5", "6", "7", "8", "9", "a", "b", "c", "d", "e", "f">>

UpperDigits ==
  <<"0", "1", "2", "3", "4", "5", "6", "7", "8", "9", "A", "B", "C", "D", "E", "F">>

Repeat(x, n) == [i \in 1..n |-> x]

Max(a, b) == IF a >= b THEN a ELSE b

\* bytes.toString('hex'), and the charCodeAt(i).toString(16) loop
ToHex(bytes) ==
  [i \in 1..(2 * Len(bytes)) |->
     LET byte == bytes[(i + 1) \div 2]
     IN HexDigits[(IF i % 2 = 1 THEN byte \div 16 ELSE byte % 16) + 1]]

\* String.prototype.toUpperCase on a hex string
ToUpperCase(hex) ==
  [i \in DOMAIN hex |->
     IF \E k \in DOMAIN HexDigits : HexDigits[k] = hex[i]
     THEN UpperDigits[CHOOSE k \in DOMAIN HexDigits : HexDigits[k] = hex[i]]
     ELSE hex[i]]

\* the value of a hex digit of either case, as parseInt(.., 16) reads it
DigitValue(c) ==
  (CHOOSE k \in DOMAIN HexDigits : HexDigits[k] = c \/ UpperDigits[k] = c) - 1

\* Buffer.from(hex, 'hex'), and the parseInt(hexString.substr(i, 2), 16) loop
FromHex(hex) ==
  [i \in 1..(Len(hex) \div 2) |->
     16 * DigitValue(hex[2 * i - 1]) + DigitValue(hex[2 * i])]

\* btoa / Buffer.toString('base64')
RECURSIVE BtoA(_)
BtoA(b) ==
  IF Len(b) = 0 THEN <<>>
  ELSE IF Len(b) = 1 THEN <<b[1] \div 4, (b[1] % 4) * 16, 64, 64>>
  ELSE IF Len(b) = 2
  THEN <<b[1] \div 4, (b[1] % 4) * 16 + b[2] \div 16, (b[2] % 16) * 4, 64>>
  ELSE <<b[1] \div 4, (b[1] % 4) * 16 + b[2] \div 16,
         (b[2] % 16) * 4 + b[3] \div 64, b[3] % 64>>
       \o BtoA(SubSeq(b, 4, Len(b)))

RECURSIVE DecodeSextets(_)
DecodeSextets(c) ==
  IF Len(c) < 2 THEN <<>>
  ELSE IF Len(c) = 2 THEN <<c[1] * 4 + c[2] \div 16>>
  ELSE IF Len(c) = 3
  THEN <<c[1] * 4 + c[2] \div 16, (c[2] % 16) * 16 + c[3] \div 4>>
  ELSE <<c[1] * 4 + c[2] \div 16, (c[2] % 16) * 16 + c[3] \div 4,
         (c[3] % 4) * 64 + c[4]>>
       \o DecodeSextets(SubSeq(c, 5, Len(c)))

\* atob / Buffer.from(base64, 'base64'): the padding is dropped first
AtoB(base64) == DecodeSextets(SelectSeq(base64, LAMBDA x : x # 64))

\* String.prototype.includes
Includes(str, pattern) ==
  \E k \in 0..(Len(str) - Len(pattern)) :
    SubSeq(str, k + 1, k + Len(pattern)) = pattern

\* isValidBase64: btoa(atob(str)) === str
IsValidBase64(str) == BtoA(AtoB(str)) = str

(***************************************************************************)
(* app.js                                                                  *)
(***************************************************************************)
\* Object.values(RESERVED_NAMESPACES): 58, 58, 58, 58, 60 and 64 characters
AppReservedNamespaces ==
  { Repeat("0", 57) \o <<"1">>,
    Repeat("0", 57) \o <<"2">>,
    Repeat("0", 57) \o <<"4">>,
    Repeat("0", 56) \o <<"F", "F">>,
    Repeat("F", 59) \o <<"E">>,
    Repeat("F", 64) }

AppBase64ToHex(base64) ==
  LET bytes == AtoB(base64)
  IN IF Len(bytes) = NamespaceSize
     THEN ToHex(SubSeq(bytes, NamespaceSize - IdSize + 1, NamespaceSize))
     ELSE ToHex(bytes)

AppHexToBase64(hex) == BtoA(FromHex(hex))

AppIsReservedNamespace(base64) ==
  \E reserved \in AppReservedNamespaces : Includes(ToHex(AtoB(base64)), reserved)

AppValidateNamespace(base64) ==
  LET bytes == AtoB(base64)
  IN IF Len(bytes) # NamespaceSize
     THEN [valid |-> FALSE, error |-> "length"]
     ELSE IF bytes[1] = 0 /\ \E i \in 1..ZeroPrefix : bytes[i + 1] # 0
     THEN [valid |-> FALSE, error |-> "leadingZeros"]
     ELSE IF bytes[1] # 0 /\ bytes[1] # 255
     THEN [valid |-> FALSE, error |-> "version"]
     ELSE IF AppIsReservedNamespace(base64)
     THEN [valid |-> FALSE, error |-> "reserved"]
     ELSE [valid |-> TRUE, error |-> ""]

\* createValidNamespace(input) for a string input, given as its UTF-8 bytes
AppCreateValidNamespace(inputBytes) ==
  LET startPos == Max(0, IdSize - Len(inputBytes))
      slice == SubSeq(inputBytes, 1, Min(IdSize, Len(inputBytes)))
      hash == Repeat(0, startPos) \o slice
                \o Repeat(0, IdSize - startPos - Len(slice))
  IN BtoA(<<0>> \o Repeat(0, ZeroPrefix) \o hash)

\* createValidNamespace() without a string: crypto.getRandomValues
AppRandomNamespace(randomPart) == BtoA(<<0>> \o Repeat(0, ZeroPrefix) \o randomPart)

(***************************************************************************)
(* utils/common.js, which database.js imports                              *)
(***************************************************************************)
\* Object.values(RESERVED_NAMESPACES): 58, 58, 58, 58, 60 and 56 characters
UtilReservedNamespaces ==
  { Repeat("0", 57) \o <<"1">>,
    Repeat("0", 57) \o <<"2">>,
    Repeat("0", 57) \o <<"4">>,
    Repeat("0", 56) \o <<"F", "F">>,
    Repeat("F", 59) \o <<"E">>,
    Repeat("F", 55) \o <<"D">> }

UtilBase64ToHex(base64) == ToUpperCase(ToHex(AtoB(base64)))

UtilHexToBase64(hex) == BtoA(FromHex(hex))

UtilIsReservedNamespace(base64) ==
  \E reserved \in UtilReservedNamespaces : UtilBase64ToHex(base64) = reserved

UtilValidateNamespace(base64) ==
  LET hexNamespace == UtilBase64ToHex(base64)
      version == 16 * DigitValue(hexNamespace[1]) + DigitValue(hexNamespace[2])
  IN IF ~IsValidBase64(base64)
     THEN [valid |-> FALSE, error |-> "base64"]
     ELSE IF Len(hexNamespace) # 2 * NamespaceSize
     THEN [valid |-> FALSE, error |-> "length"]
     ELSE IF version # 0 /\ version # 255
     THEN [valid |-> FALSE, error |-> "version"]
     ELSE IF UtilIsReservedNamespace(base64)
     THEN [valid |-> FALSE, error |-> "reserved"]
     ELSE [valid |-> TRUE, error |-> ""]

UtilCreateValidNamespace(inputBytes) ==
  LET bytesToCopy == Min(Len(inputBytes), CopyLimit)
      namespaceBytes == <<0>> \o SubSeq(inputBytes, 1, bytesToCopy)
                          \o Repeat(0, CopyLimit - bytesToCopy)
  IN [base64 |-> BtoA(namespaceBytes), hex |-> ToUpperCase(ToHex(namespaceBytes))]

(***************************************************************************)
(* The arguments the functions are applied to.                             *)
(***************************************************************************)
CandidateLengths == {NamespaceSize - 1, NamespaceSize, NamespaceSize + 1}
Versions == {0, 1, 255}
Prefixes ==
  { Repeat(0, ZeroPrefix),
    <<1>> \o Repeat(0, ZeroPrefix - 1),
    Repeat(0, ZeroPrefix - 1) \o <<1>>,
    Repeat(255, ZeroPrefix) }
IdFills == {0, 255}
LastBytes == {0, 1, 2, 3, 4, 254, 255}

Candidates ==
  { <<v>> \o p \o Repeat(f, n - ZeroPrefix - 2) \o <<l>> :
      v \in Versions, p \in Prefixes, f \in IdFills, l \in LastBytes,
      n \in CandidateLengths }

Text(n) == [i \in 1..n |-> 96 + i]
\* "red-cat-0" and "blue-cat-123", names generateRandomNamespace builds
GeneratedNames ==
  { <<114, 101, 100, 45, 99, 97, 116, 45, 48>>,
    <<98, 108, 117, 101, 45, 99, 97, 116, 45, 49, 50, 51>> }
\* texts of one control character, which value.trim() keeps
ControlTexts == {<<1>>, <<2>>, <<4>>}
Texts ==
  {Text(n) : n \in {0, 1, IdSize - 1, IdSize, IdSize + 1, MaxTextLen}}
  \cup GeneratedNames \cup ControlTexts
RandomParts == {Repeat(0, IdSize), Repeat(255, IdSize)}

(***************************************************************************)
(* encryptData / decryptData.  AES-GCM is taken as an authenticated        *)
(* cipher: what crypto.subtle.encrypt returns opens under the same key     *)
(* and IV and under no other.  A key is the derivation applied to the      *)
(* token, the encrypted array is the IV followed by the sealed content.    *)
(***************************************************************************)
IvSize == 12            \* bytes of the AES-GCM IV

\* a key other than the one the token gives, standing for every token
\* mapped to one key
DeriveKeyIgnoringToken(token) == [kdf |-> "SHA-256", token |-> 0]

\* app.js: SHA-256 of the token, imported as AES-GCM key
AppDeriveKey(token) == [kdf |-> "SHA-256", token |-> token]

\* database.js: PBKDF2 of the token with the fixed salt
DbDeriveKey(token) ==
  [kdf |-> "PBKDF2", token |-> token, salt |-> "celestia-db-salt"]

\* crypto.subtle.encrypt({name: 'AES-GCM', iv}, key, buffer)
Seal(key, iv, buffer) == [key |-> key, iv |-> iv, buffer |-> buffer]

\* crypto.subtle.decrypt({name: 'AES-GCM', iv}, key, sealed)
Open(key, iv, sealed) ==
  IF sealed # <<>> /\ sealed[1].key = key /\ sealed[1].iv = iv
  THEN [ok |-> TRUE, buffer |-> sealed[1].buffer]
  ELSE [ok |-> FALSE, buffer |-> <<>>]

\* app.js encryptData(data, token): data is a string
AppEncryptData(data, token, iv) ==
  iv \o <<Seal(AppDeriveKey(token), iv, [utf8 |-> data])>>

AppDecryptData(encrypted, token) ==
  LET iv == SubSeq(encrypted, 1, IvSize)
      encryptedData == SubSeq(encrypted, IvSize + 1, Len(encrypted))
      r == Open(AppDeriveKey(token), iv, encryptedData)
  IN IF r.ok THEN [ok |-> TRUE, value |-> r.buffer.utf8, error |-> ""]
     ELSE [ok |-> FALSE, value |-> Undefined, error |-> "decrypt"]

\* database.js encryptData(data, token): data goes through JSON.stringify
DbEncryptData(data, token, iv) ==
  iv \o <<Seal(DbDeriveKey(token), iv, [utf8 |-> [json |-> data]])>>

\* database.js decryptData: JSON.parse of the decoded text
DbDecryptData(encrypted, token) ==
  LET iv == SubSeq(encrypted, 1, IvSize)
      ciphertext == SubSeq(encrypted, IvSize + 1, Len(encrypted))
      r == Open(DbDeriveKey(token), iv, ciphertext)
  IN IF r.ok THEN [ok |-> TRUE, value |-> r.buffer.utf8.json, error |-> ""]
     ELSE [ok |-> FALSE, value |-> Undefined, error |-> "decrypt"]

CryptoTokens == {1, 2}
Ivs == {Repeat(0, IvSize), Repeat(7, IvSize)}

\* What the callers pass: app.js the JSON text of a record, database.js
\* the parsed record.
Plaintexts ==
  IF build = "app" THEN {[json |-> v] : v \in RecordInputs} ELSE RecordInputs

CryptoInputs ==
  {[kind |-> "message", fn |-> "none", valid |-> FALSE, error |-> "",
    msg |-> msg, token |-> k, other |-> k2, cipher |-> <<>>,
    plain |-> Undefined] :
      msg \in Plaintexts, k \in CryptoTokens, k2 \in CryptoTokens}

(***************************************************************************)
(* Submitting under a namespace typed into a form: what is written to the  *)
(* socket and how the call ends.  connected: the socket is open.           *)
(***************************************************************************)
\* submitBlob of app.js, first copy: the checks, then sendRpcRequest
AppSubmitBlob(namespace, connected) ==
  IF ~IsValidBase64(namespace)
  THEN [ok |-> FALSE, error |-> "namespaceFormat", requests |-> <<>>]
  ELSE IF ~AppValidateNamespace(namespace).valid
  THEN [ok |-> FALSE, error |-> "namespaceInvalid", requests |-> <<>>]
  ELSE IF connected
  THEN [ok |-> TRUE, error |-> "", requests |-> <<"blob.Submit">>]
  ELSE [ok |-> FALSE, error |-> "notConnected", requests |-> <<>>]

\* submitBlob of app.js, second copy: testConnection() first, which calls
\* state.AccountAddress, then the checks, then makeRpcCall
SecondSubmitBlob(namespace, connected) ==
  IF ~connected
  THEN [ok |-> FALSE, error |-> "notConnected", requests |-> <<>>]
  ELSE IF ~IsValidBase64(namespace)
  THEN [ok |-> FALSE, error |-> "namespaceFormat",
        requests |-> <<"state.AccountAddress">>]
  ELSE IF ~AppValidateNamespace(namespace).valid
  THEN [ok |-> FALSE, error |-> "namespaceInvalid",
        requests |-> <<"state.AccountAddress">>]
  ELSE [ok |-> TRUE, error |-> "",
        requests |-> <<"state.AccountAddress", "blob.Submit">>]

\* database.js: the submit handler of the initialize form validates and
\* returns, else initializeDatabase sends blob.Submit
DbSubmitInit(namespace, connected) ==
  IF ~UtilValidateNamespace(namespace).valid
  THEN [ok |-> FALSE, error |-> "namespaceInvalid", requests |-> <<>>]
  ELSE IF connected
  THEN [ok |-> TRUE, error |-> "", requests |-> <<"blob.Submit">>]
  ELSE [ok |-> FALSE, error |-> "notConnected", requests |-> <<>>]

\* the copies of app.js; database.js has one
Copies == IF build = "app" THEN {1, 2} ELSE {1}

SubmitInputs ==
  {[kind |-> "submit", fn |-> "none", valid |-> FALSE, error |-> "",
    wire |-> BtoA(bytes), connected |-> c, copy |-> n, requests |-> <<>>] :
      bytes \in Candidates, c \in BOOLEAN, n \in Copies}

CodecInputs ==
  {[CodecIdle EXCEPT !.kind = "candidate", !.wire = BtoA(bytes)] :
      bytes \in Candidates}
  \cup {[CodecIdle EXCEPT !.kind = "text", !.text = t] : t \in Texts}
  \cup {[CodecIdle EXCEPT !.kind = "random"]}

(***************************************************************************)
(* Records and schemas given to validateDataAgainstSchema, which only      *)
(* database.js has: every JSON value in each field, every declaration of   *)
(* the five types, under the key "fields".                                 *)
(***************************************************************************)
JsonValues ==
  {Undefined, JsNull, JsString("a"), JsNumber("1"),
   [type |-> "boolean", val |-> "true"], [type |-> "object", val |-> "{}"],
   [type |-> "array", val |-> "[]"]}

Declarations ==
  {Undeclared} \cup
  {[declared |-> TRUE, type |-> t, required |-> r] :
     t \in {"string", "number", "boolean", "object", "array"}, r \in BOOLEAN}

ValidateInputs ==
  IF build = "database"
  THEN {[kind |-> "validate", fn |-> "none", valid |-> FALSE, error |-> "",
         field |-> "none", data |-> d, schema |-> [shape |-> "fields", decl |-> g]] :
           d \in [FieldNames -> JsonValues], g \in [FieldNames -> Declarations]}
  ELSE {}

CodecInit ==
  /\ ProgramInit
  /\ codec \in CodecInputs \cup CryptoInputs \cup SubmitInputs \cup ValidateInputs

ValidateNamespace ==
  /\ codec.kind = "candidate" /\ codec.fn = "none"
  /\ LET r == IF build = "app" THEN AppValidateNamespace(codec.wire)
              ELSE UtilValidateNamespace(codec.wire)
     IN codec' = [codec EXCEPT !.fn = "validateNamespace",
                               !.valid = r.valid, !.error = r.error]
  /\ UNCHANGED <<transportVars, storeVars, streamVars>>

Base64ToHex ==
  /\ codec.kind = "candidate" /\ codec.fn = "none"
  /\ codec' = [codec EXCEPT !.fn = "base64ToHex",
                            !.hex = IF build = "app"
                                    THEN AppBase64ToHex(codec.wire)
                                    ELSE UtilBase64ToHex(codec.wire)]
  /\ UNCHANGED <<transportVars, storeVars, streamVars>>

\* hexToBase64 applied to what base64ToHex returned
HexToBase64 ==
  /\ codec.fn = "base64ToHex"
  /\ codec' = [codec EXCEPT !.fn = "hexToBase64",
                            !.base64 = IF build = "app"
                                       THEN AppHexToBase64(codec.hex)
                                       ELSE UtilHexToBase64(codec.hex)]
  /\ UNCHANGED <<transportVars, storeVars, streamVars>>

CreateValidNamespace ==
  /\ codec.kind = "text" /\ codec.fn = "none"
  /\ codec' = IF build = "app"
              THEN [codec EXCEPT !.fn = "createValidNamespace", !.valid = TRUE,
                                 !.base64 = AppCreateValidNamespace(codec.text)]
              ELSE LET r == UtilCreateValidNamespace(codec.text)
                   IN [codec EXCEPT !.fn = "createValidNamespace",
                                    !.valid = TRUE,
                                    !.base64 = r.base64, !.hex = r.hex]
  /\ UNCHANGED <<transportVars, storeVars, streamVars>>

\* createValidNamespace without a string input; only app.js has the branch
CreateRandomNamespace ==
  /\ build = "app"
  /\ codec.kind = "random" /\ codec.fn = "none"
  /\ \E randomPart \in RandomParts :
       codec' = [codec EXCEPT !.fn = "createValidNamespace", !.valid = TRUE,
                              !.base64 = AppRandomNamespace(randomPart)]
  /\ UNCHANGED <<transportVars, storeVars, streamVars>>

\* validateNamespace applied to what createValidNamespace returned, as
\* submitBlob does with the namespace of the form
ValidateCreated ==
  /\ codec.fn = "createValidNamespace"
  /\ LET r == IF build = "app" THEN AppValidateNamespace(codec.base64)
              ELSE UtilValidateNamespace(codec.base64)
     IN codec' = [codec EXCEPT !.fn = "validateCreated",
                               !.valid = r.valid, !.error = r.error]
  /\ UNCHANGED <<transportVars, storeVars, streamVars>>

\* encryptData(msg, token) with a fresh IV
EncryptData ==
  /\ codec.kind = "message" /\ codec.fn = "none"
  /\ \E iv \in Ivs :
       codec' = [codec EXCEPT !.fn = "encryptData",
                   !.cipher = IF build = "app"
                              THEN AppEncryptData(codec.msg, codec.token, iv)
                              ELSE DbEncryptData(codec.msg, codec.token, iv)]
  /\ UNCHANGED <<transportVars, storeVars, streamVars>>

\* decryptData applied to what encryptData returned, under the token other
DecryptData ==
  /\ codec.fn = "encryptData"
  /\ LET r == IF build = "app" THEN AppDecryptData(codec.cipher, codec.other)
              ELSE DbDecryptData(codec.cipher, codec.other)
     IN codec' = [codec EXCEPT !.fn = "decryptData", !.valid = r.ok,
                               !.plain = r.value, !.error = r.error]
  /\ UNCHANGED <<transportVars, storeVars, streamVars>>

\* a blob is submitted under the namespace of the form
SubmitBlob ==
  /\ codec.kind = "submit" /\ codec.fn = "none"
  /\ LET r == IF build = "database"
              THEN DbSubmitInit(codec.wire, codec.connected)
              ELSE IF codec.copy = 1
              THEN AppSubmitBlob(codec.wire, codec.connected)
              ELSE SecondSubmitBlob(codec.wire, codec.connected)
     IN codec' = [codec EXCEPT !.fn = "submitBlob", !.valid = r.ok,
                               !.error = r.error, !.requests = r.requests]
  /\ UNCHANGED <<transportVars, storeVars, streamVars>>

\* validateDataAgainstSchema(data, schema)
ValidateData ==
  /\ codec.kind = "validate" /\ codec.fn = "none"
  /\ LET r == ValidateDataAgainstSchema(codec.data, codec.schema)
     IN codec' = [codec EXCEPT !.fn = "validateDataAgainstSchema",
                               !.valid = r.isValid, !.error = r.error,
                               !.field = r.field]
  /\ UNCHANGED <<transportVars, storeVars, streamVars>>

CodecNext ==
  \/ ValidateNamespace
  \/ Base64ToHex
  \/ HexToBase64
  \/ CreateValidNamespace
  \/ CreateRandomNamespace
  \/ ValidateCreated
  \/ EncryptData
  \/ DecryptData
  \/ SubmitBlob
  \/ ValidateData

CodecSpec == CodecInit /\ [][CodecNext]_vars

\* The invariant of a namespace: its length, version and zero prefix.
WellFormed(bytes) ==
  /\ Len(bytes) = NamespaceSize
  /\ bytes[1] \in {0, 255}
  /\ bytes[1] = 0 => \A i \in 1..ZeroPrefix : bytes[i + 1] = 0

\* The namespaces the two lists of reserved patterns name: a pattern of
\* more than 29 bytes is read as its last 29 bytes.
ReservedSet ==
  { LET b == FromHex(r)
    IN SubSeq(b, Len(b) - NamespaceSize + 1, Len(b)) :
      r \in {x \in AppReservedNamespaces \cup UtilReservedNamespaces :
               Len(x) >= 2 * NamespaceSize} }

(***************************************************************************)
(* C18.  validateNamespace accepts a candidate exactly when it has 29      *)
(* bytes, its version is 0 or 255, a version-0 candidate has bytes 1..18   *)
(* zero, and it is no member of the reserved set.                          *)
(***************************************************************************)
C18_ValidateNamespaceRules ==
  codec.fn = "validateNamespace" =>
    (codec.valid <=> ( /\ WellFormed(AtoB(codec.wire))
                       /\ AtoB(codec.wire) \notin ReservedSet ))

(***************************************************************************)
(* C19.  A valid namespace in wire form, taken to display form with        *)
(* base64ToHex and back with hexToBase64, is the namespace again.          *)
(***************************************************************************)
C19_DisplayRoundTrip ==
  ( /\ codec.fn = "hexToBase64"
    /\ WellFormed(AtoB(codec.wire))
    /\ AtoB(codec.wire) \notin ReservedSet )
  => codec.base64 = codec.wire

(***************************************************************************)
(* C20.  createValidNamespace turns a text of at most 10 bytes into a      *)
(* 29-byte namespace of version 0 with bytes 1..18 zero whose last 10      *)
(* bytes are the text and zero bytes, and fails with InputTooLong for a    *)
(* longer text.                                                            *)
(***************************************************************************)
C20_CreateValidNamespace ==
  (codec.fn = "createValidNamespace" /\ codec.kind = "text") =>
    IF Len(codec.text) <= IdSize
    THEN LET bytes == AtoB(codec.base64)
         IN /\ codec.valid
            /\ Len(bytes) = NamespaceSize
            /\ bytes[1] = 0
            /\ \A i \in 1..ZeroPrefix : bytes[i + 1] = 0
            /\ \E k \in 0..(IdSize - Len(codec.text)) :
                 SubSeq(bytes, NamespaceSize - IdSize + 1, NamespaceSize)
                   = Repeat(0, k) \o codec.text
                       \o Repeat(0, IdSize - Len(codec.text) - k)
    ELSE ~codec.valid /\ codec.error = "InputTooLong"

(***************************************************************************)
(* C21.  A namespace createValidNamespace produced, from a text or from a  *)
(* generated name, is accepted by validateNamespace.                       *)
(***************************************************************************)
C21_CreatedIsValid ==
  (codec.fn = "validateCreated" /\ codec.kind = "text") => codec.valid

TokenAtom(t) == [sort |-> "token", id |-> t]
KeyAtom(k) == [sort |-> "key", key |-> k]

\* blob.Submit with the token added to the options
AppSubmitRequestWithToken(op) ==
  [method |-> "blob.Submit", namespace |-> op.ns, height |-> 0,
   data |-> AppEncryptData(
              [json |-> IF op.kind = "init"
                        THEN [schema |-> op.schema, createdAt |-> op.began]
                        ELSE [data |-> op.data, createdAt |-> op.began]],
              op.token, Repeat(op.began, IvSize)),
   options |-> <<TokenAtom(op.token)>>]

\* app.js: initializeDatabase / addDatabaseRecord encrypt the JSON text of
\* {schema | data, createdAt, ...} and submitBlob sends
\* blob.Submit [[{namespace, data, share_version}], options]
AppSubmitRequest(op) ==
  [method |-> "blob.Submit", namespace |-> op.ns, height |-> 0,
   data |-> AppEncryptData(
              [json |-> IF op.kind = "init"
                        THEN [schema |-> op.schema, createdAt |-> op.began]
                        ELSE [data |-> op.data, createdAt |-> op.began]],
              op.token, Repeat(op.began, IvSize)),
   options |-> <<>>]

\* app.js retrieveBlob: blob.GetAll [height, [namespace]]
AppGetAllRequest(op, height) ==
  [method |-> "blob.GetAll", namespace |-> op.ns, height |-> height,
   data |-> <<>>, options |-> <<>>]

\* database.js: blob.Submit of {type, version, created, schema | data}
\* with the schema or the record data encrypted
DbSubmitRequest(op) ==
  [method |-> "blob.Submit", namespace |-> op.ns, height |-> 0,
   data |-> DbEncryptData(IF op.kind = "init" THEN op.schema ELSE op.data,
                          op.token, Repeat(op.began, IvSize)),
   options |-> <<>>]

\* database.js: blob.GetAll [0, namespaceHex, {prove: false}]
DbGetAllRequest(op) ==
  [method |-> "blob.GetAll", namespace |-> op.ns, height |-> 0,
   data |-> <<>>, options |-> <<>>]

\* The requests a handler invocation has written so far.  For a listing
\* of app.js these are the requests of the entries visited; an entry
\* visited while not connected sent none, so this is an upper bound.
Requests(op) ==
  IF op.kind \in {"init", "append"}
  THEN IF ~op.sent THEN {}
       ELSE IF build = "app" THEN {AppSubmitRequest(op)}
       ELSE {DbSubmitRequest(op)}
  ELSE IF op.kind = "list"
  THEN IF build = "app"
       THEN {AppGetAllRequest(op, op.entries[k].height) :
               k \in 1..Len(op.fetched)}
       ELSE IF op.sent THEN {DbGetAllRequest(op)} ELSE {}
  ELSE {}

\* What a reader of a request sees: the method, the namespace, the height,
\* the options, and of encrypted data the IV and the sealed content, whose
\* inside it does not see.
Cleartext(r) ==
  {[sort |-> "method", name |-> r.method],
   [sort |-> "namespace", id |-> r.namespace],
   [sort |-> "height", id |-> r.height]}
  \cup {r.options[k] : k \in DOMAIN r.options}
  \cup (IF r.data = <<>> THEN {}
        ELSE {[sort |-> "iv", bytes |-> SubSeq(r.data, 1, IvSize)],
              [sort |-> "sealed", box |-> r.data[IvSize + 1]]})

C24_ValidationBeforeNetwork ==
  ( /\ codec.fn = "submitBlob"
    /\ ~(IF build = "app" THEN AppValidateNamespace(codec.wire).valid
         ELSE UtilValidateNamespace(codec.wire).valid) )
  => /\ ~codec.valid
     /\ codec.requests = <<>>
     /\ codec.connected => codec.error = "namespaceInvalid"

(***************************************************************************)
(* C25.  An add-record call whose data holds a field the database's schema *)
(* does not define is rejected by schema validation and no blob.Submit is  *)
(* sent for it (calls on a database that is not initialized, or made while *)
(* the socket is closed, end otherwise and send nothing).                  *)
(***************************************************************************)
C25_UndefinedFieldsRejected ==
  \A i \in DOMAIN ops :
    ( /\ ops[i].kind = "append"
      /\ ops[i].outcome \notin {"notInitialized", "failed"}
      /\ \E f \in FieldNames :
           ~ops[i].stored.decl[f].declared /\ ops[i].data[f].type # "undefined" )
    => (ops[i].outcome = "invalid" /\ ~ops[i].sent)

(***************************************************************************)
(* C26.  No two calls hold the same request id, and each id handed out is  *)
(* the successor of the last one: larger than every id taken before it.    *)
(***************************************************************************)
C26_RequestIdsIncrease ==
  /\ [](\A c, d \in Calls :
          (c # d /\ calls[c].id # 0) => calls[c].id # calls[d].id)
  /\ [][\A c \in Calls :
          calls'[c].id # calls[c].id =>
            /\ calls[c].id = 0
            /\ calls'[c].id = requestId
            /\ requestId' = requestId + 1
            /\ \A d \in Calls : d # c => calls[d].id < calls'[c].id]_vars

\* both calls were written, the one issued second first
C26_Witness ==
  /\ calls[1].sent /\ calls[1].id = 2
  /\ calls[2].sent /\ calls[2].id = 1

(***************************************************************************)
(* C27.  The arrival of a frame that does not parse, carries no id, or     *)
(* carries an id with no entry in the pending-request table settles no     *)
(* call and leaves the table, the connection state and the reconnect       *)
(* counter as they were.                                                   *)
(***************************************************************************)
C27_UnmatchedIgnored ==
  [][(\E m \in Messages : ~Matches(m) /\ Unsolicited(m)) =>
       /\ calls' = calls
       /\ pendingRequests' = pendingRequests
       /\ isConnected' = isConnected
       /\ ws' = ws
       /\ socks' = socks
       /\ connectionStatus' = connectionStatus
       /\ reconnectAttempts' = reconnectAttempts
       /\ reconnectTimers' = reconnectTimers]_vars

\* a frame naming a settled call has arrived while another call is pending
C27_Witness ==
  /\ lateMsg
  /\ \E c \in Calls : Pending(c)

(***************************************************************************)
(* C28.  While a socket is open the reconnect counter is zero; the close   *)
(* of an open socket therefore schedules the first reconnect, with the     *)
(* base delay, and the transport gives up only after the counter has       *)
(* climbed from there to its maximum, one close at a time.                 *)
(***************************************************************************)
C28_OpenResetsReconnectCounter ==
  /\ [](\A s \in Sockets : socks[s] = "open" => reconnectAttempts = 0)
  /\ [][\A s \in Sockets :
          (socks[s] = "open" /\ socks'[s] = "closed") =>
             /\ reconnectAttempts' = 1
             /\ lastDelay' = BaseDelay
             /\ reconnectTimers' = reconnectTimers + 1]_vars
  /\ [][/\ reconnectAttempts' \in {reconnectAttempts, reconnectAttempts + 1, 0}
        /\ (connectionStatus' = "disconnected" /\ connectionStatus # "disconnected")
             => reconnectAttempts = maxReconnectAttempts]_vars

\* a connection opened at the third attempt; the counter is back at zero
C28_Witness ==
  /\ \E s \in Sockets : socks[s] = "open"
  /\ lastDelay = 2 * BaseDelay
  /\ reconnectAttempts = 0

(***************************************************************************)
(* C29.  A call is rejected with the node's error only if its request was  *)
(* written and a response carrying its id and an error member arrived; a   *)
(* call rejected with the connection timeout or with 'Not connected' never *)
(* had a request written.                                                  *)
(***************************************************************************)
C29_FailuresDistinguishable ==
  \A c \in Calls :
    /\ calls[c].outcome = "rpcError" =>
         /\ calls[c].sent
         /\ calls[c].id # 0
         /\ calls[c].by = calls[c].id
         /\ calls[c].byError
    /\ calls[c].outcome \in {"timeout", "notConnected"} =>
         /\ ~calls[c].sent
         /\ calls[c].by = 0
         /\ \A r \in wire : r.id # calls[c].id
         /\ \A i \in DOMAIN pendingRequests : pendingRequests[i] # c

\* one call timed out unconnected, the next was rejected by the node
C29_Witness ==
  /\ calls[1].outcome = "timeout"
  /\ calls[2].outcome = "rpcError"

(***************************************************************************)
(* C30.  An add-record call made while the stored namespace or the stored  *)
(* schema position is absent ends at once as not initialized, sends no     *)
(* request and leaves the stored namespace, schema position and Local      *)
(* Index as they were.                                                     *)
(***************************************************************************)
C30_AppendRequiresInitialized ==
  [][ ( /\ Len(ops') = Len(ops) + 1
        /\ ops'[Len(ops')].kind = "append"
        /\ (dbNamespace = 0 \/ dbSchemaHeight = 0) )
      => /\ ops'[Len(ops')].pc = "done"
         /\ ops'[Len(ops')].outcome = "notInitialized"
         /\ ~ops'[Len(ops')].sent
         /\ UNCHANGED <<dbNamespace, dbSchemaHeight, dbRecords>> ]_vars

(***************************************************************************)
(* C31.  An initialization whose schema is not a mapping of field names to *)
(* declarations, or declares a type outside string, number, boolean,       *)
(* object, array, is rejected as an invalid schema: nothing is sent for it *)
(* (initializations made while the socket is closed fail otherwise and     *)
(* send nothing).                                                          *)
(***************************************************************************)
SchemaTypes == {"string", "number", "boolean", "object", "array"}

WellFormedSchema(schema) ==
  /\ schema.shape \in {"flat", "fields"}
  /\ \A f \in FieldNames : schema.decl[f].declared => schema.decl[f].type \in SchemaTypes

C31_IllFormedSchemaRejected ==
  \A i \in DOMAIN ops :
    ( /\ ops[i].kind = "init"
      /\ ops[i].outcome # "failed"
      /\ ~WellFormedSchema(ops[i].schema) )
    => (ops[i].outcome = "schemaInvalid" /\ ~ops[i].sent)

(***************************************************************************)
(* C32.  validateDataAgainstSchema accepts a record exactly when every     *)
(* declared field passes the rule: a required field that is absent or null *)
(* fails; an absent optional field passes; a present field passes only if  *)
(* its value is of the declared type, where object takes neither arrays    *)
(* nor null and array takes only arrays.                                   *)
(***************************************************************************)
\* the type of a value, with null and arrays told apart from objects
RuntimeType(v) == v.type

FieldPasses(v, d) ==
  IF d.required /\ v.type \in {"undefined", "null"} THEN FALSE
  ELSE IF v.type = "undefined" THEN TRUE
  ELSE RuntimeType(v) = d.type

C32_ValidationMatchesRule ==
  codec.fn = "validateDataAgainstSchema" =>
    ( codec.valid <=>
        \A f \in FieldNames :
          codec.schema.decl[f].declared => FieldPasses(codec.data[f], codec.schema.decl[f]) )

(***************************************************************************)
(* C33.  In app.js, as long as no clearDatabaseCache has run, the Local    *)
(* Index holds one pointer for each add-record call that succeeded since   *)
(* the last initialization stored an empty index, and no other, whether or *)
(* not the calls were in flight together and in whatever order their       *)
(* responses arrived.                                                      *)
(***************************************************************************)
Pointer(i) == [height |-> ops[i].height, timestamp |-> ops[i].ended]

Appended == {i \in DOMAIN ops : ops[i].kind = "append" /\ ops[i].outcome = "ok"}

\* the successful add-record calls answered after every completed initialization
AppendedSinceInit ==
  {i \in Appended :
     \A k \in DOMAIN ops :
       (ops[k].kind = "init" /\ ops[k].outcome = "ok") => ops[k].ended < ops[i].ended}

C33_ConcurrentAppendsKept ==
  ( /\ build = "app"
    /\ \A k \in DOMAIN ops : ops[k].kind # "clear" )
  => /\ Len(dbRecords.list) = Cardinality(AppendedSinceInit)
     /\ \A i \in AppendedSinceInit :
          \E k \in DOMAIN dbRecords.list : dbRecords.list[k] = Pointer(i)

\* two calls in flight together, answered in the reverse order, both kept
C33_Witness ==
  \E i, j \in Appended :
    /\ build = "app"
    /\ i < j
    /\ ops[j].began < ops[i].ended
    /\ ops[j].ended < ops[i].ended
    /\ dbRecords.list = <<Pointer(j), Pointer(i)>>

(***************************************************************************)
(* C34.  Under initializations and add-record calls in any interleaving    *)
(* (no clearDatabaseCache), every pointer of the Local Index names a       *)
(* height at which the node accepted a record blob in the namespace now    *)
(* stored.                                                                 *)
(***************************************************************************)
C34_IndexInStoredNamespace ==
  (\A i \in DOMAIN ops : ops[i].kind # "clear") =>
    \A k \in DOMAIN dbRecords.list :
      \E n \in DOMAIN chain :
        /\ chain[n].kind = "record"
        /\ chain[n].height = dbRecords.list[k].height
        /\ chain[n].ns = dbNamespace

(***************************************************************************)
(* C35.  Whenever the Local Index holds a pointer, the namespace and the   *)
(* schema position are stored.                                             *)
(***************************************************************************)
C35_IndexImpliesInitialized ==
  dbRecords.list # <<>> => (dbNamespace # 0 /\ dbSchemaHeight # 0)

(***************************************************************************)
(* C36.  A step of a read operation, its start or the arrival of one of    *)
(* its fetches, leaves the stored token, namespace, schema position and    *)
(* Local Index as they were.                                               *)
(***************************************************************************)
C36_ReadsLeaveStateAlone ==
  [][ ( \/ Len(ops') > Len(ops) /\ ops'[Len(ops')].kind \in {"list", "schema"}
        \/ \E i \in DOMAIN ops : ops[i].kind = "list" /\ ops'[i] # ops[i] )
      => UNCHANGED <<dbAuthToken, dbNamespace, dbSchemaHeight, dbRecords>> ]_vars

(***************************************************************************)
(* C37.  A stored token is replaced or removed by no step but a            *)
(* clearDatabaseCache; hence a listing that reads the token after a        *)
(* successful add-record began, with no clearDatabaseCache in between,     *)
(* reads the token under which that record was encrypted and decrypts it.  *)
(***************************************************************************)
ClearedBetween(a, l) ==
  \E c \in DOMAIN ops :
    ops[c].kind = "clear" /\ ops[a].began < ops[c].began /\ ops[c].began < ops[l].began

C38_EachRecordOnce ==
  \A l \in DOMAIN ops :
    ( /\ ops[l].kind = "list" /\ ops[l].pc = "done" /\ ops[l].outcome = "ok"
      /\ \A k \in DOMAIN ops[l].fetched : ops[l].fetched[k]
      /\ \A c \in DOMAIN ops : ops[c].kind # "clear" )
    => LET acc == ops[l].acc
       IN /\ \A a \in Appended :
               ops[a].ended < ops[l].began =>
                 Cardinality({k \in DOMAIN acc : /\ acc[k].kind = "record"
                                                 /\ acc[k].created = ops[a].began}) = 1
          /\ \A k \in DOMAIN acc :
               /\ acc[k].kind = "record"
               /\ \E a \in Appended : /\ ops[a].ended < ops[l].ended
                                      /\ acc[k].created = ops[a].began
               /\ \A j \in DOMAIN acc : j # k => acc[j].created # acc[k].created

(***************************************************************************)
(* setupRealtimeSamplingStats().  A streamStats function is "fetching"     *)
(* (await getSamplingStats() pending), "repoll" (its 200 ms timer is set), *)
(* "retry" (its reconnect timer is set) or "stopped" (it returned without  *)
(* scheduling itself, or its timer was cleared).  The setup has run        *)
(* startStreaming once, so the first function is fetching.                 *)
(***************************************************************************)
\* maxReconnectAttempts of setupRealtimeSamplingStats
streamMaxReconnectAttempts == 5

\* streamStats() entered: `if (signal.aborted) return`, else the fetch
EnterStreamStats == IF signal \in abortedSignals THEN "stopped" ELSE "fetching"

\* clearTimeout(reconnectTimeout)
ClearReconnectTimeout(loops) ==
  IF reconnectTimeout # 0 /\ loops[reconnectTimeout] = "retry"
  THEN [loops EXCEPT ![reconnectTimeout] = "stopped"]
  ELSE loops

\* click on the live button: stopStreaming(), or a new controller and
\* startStreaming(), whose streamStats runs up to its await
ToggleLive ==
  /\ IF isStreaming
     THEN /\ abortedSignals' = abortedSignals \cup {signal}
          /\ streamLoops' = ClearReconnectTimeout(streamLoops)
          /\ UNCHANGED signal
     ELSE /\ Len(streamLoops) < MaxLoops
          /\ abortedSignals' = abortedSignals \cup {signal}
          /\ signal' = signal + 1
          /\ streamLoops' = Append(streamLoops, "fetching")
  /\ isStreaming' = ~isStreaming
  /\ UNCHANGED <<streamReconnectAttempts, reconnectTimeout>>
  /\ UNCHANGED <<transportVars, storeVars, codecVars>>

\* getSamplingStats() returned the statistics (ok) or null
StatsFetched(l, ok) ==
  /\ streamLoops[l] = "fetching"
  /\ IF ok
     THEN /\ streamReconnectAttempts' = 0
          /\ streamLoops' = [streamLoops EXCEPT ![l] = "repoll"]
          /\ UNCHANGED reconnectTimeout
     ELSE IF streamReconnectAttempts < streamMaxReconnectAttempts
     THEN /\ streamReconnectAttempts' = streamReconnectAttempts + 1
          /\ streamLoops' = [streamLoops EXCEPT ![l] = "retry"]
          /\ reconnectTimeout' = l
     ELSE /\ streamLoops' = [streamLoops EXCEPT ![l] = "stopped"]
          /\ UNCHANGED <<streamReconnectAttempts, reconnectTimeout>>
  /\ UNCHANGED <<isStreaming, signal, abortedSignals>>
  /\ UNCHANGED <<transportVars, storeVars, codecVars>>

\* setTimeout(streamStats, 200) fires
RepollTimer(l) ==
  /\ streamLoops[l] = "repoll"
  /\ streamLoops' = [streamLoops EXCEPT ![l] = EnterStreamStats]
  /\ UNCHANGED <<isStreaming, signal, abortedSignals, streamReconnectAttempts,
                 reconnectTimeout>>
  /\ UNCHANGED <<transportVars, storeVars, codecVars>>

\* the reconnect timer fires: streamStats() unless the signal is aborted
RetryTimer(l) ==
  /\ streamLoops[l] = "retry"
  /\ streamLoops' = [streamLoops EXCEPT ![l] = EnterStreamStats]
  /\ UNCHANGED <<isStreaming, signal, abortedSignals, streamReconnectAttempts,
                 reconnectTimeout>>
  /\ UNCHANGED <<transportVars, storeVars, codecVars>>

StreamNext ==
  \/ ToggleLive
  \/ \E l \in DOMAIN streamLoops, ok \in BOOLEAN : StatsFetched(l, ok)
  \/ \E l \in DOMAIN streamLoops : RepollTimer(l)
  \/ \E l \in DOMAIN streamLoops : RetryTimer(l)

StreamSpec == Init /\ [][StreamNext]_vars

(***************************************************************************)
(* C39.  While the stream is live at most one streamStats function is      *)
(* fetching or has a timer set, and while it is paused no function starts  *)
(* a fetch.                                                                *)
(***************************************************************************)
ActiveLoops == {l \in DOMAIN streamLoops : streamLoops[l] # "stopped"}

C39_OneStreamLoop ==
  /\ [](isStreaming => Cardinality(ActiveLoops) <= 1)
  /\ [][ (~isStreaming /\ ~isStreaming') =>
           \A l \in DOMAIN streamLoops :
             streamLoops'[l] = "fetching" => streamLoops[l] = "fetching" ]_vars

=============================================================================
